---- MODULE Spec2Model ----
(***************************************************************************)
(* Stablecoin cross-exchange arbitrage: graph model, cycle searches        *)
(* (dijkstra, A-star, weighted A-star, optimized A-star), two-level search  *)
(* and the tiered-fee volume optimizer of WalletManager.                   *)
(*                                                                         *)
(* Numbers.  The program computes with floats; the model computes with     *)
(* exact integers in fixed units:                                          *)
(*   prices, fees, weights, costs : multiples of 1/Scale  (Scale = 10000)  *)
(*   net profit of a cycle        : multiples of 1/Scale^2                 *)
(*   frontier priorities (f-cost) : multiples of 1/(Scale*PScale)          *)
(*   volumes                      : whole currency units                   *)
(*   wallet profit                : multiples of 1/Scale currency units    *)
(***************************************************************************)
EXTENDS Integers, Sequences, FiniteSets, TLC

VARIABLES
    nodes,            \* ArbitrageGraph.nodes : key -> [price, edges]
    edges,            \* ArbitrageGraph.edges : list of Edge
    start_node,       \* search argument
    max_depth,        \* search argument
    algorithm,        \* which search function runs
    volatility_factor,\* search argument, in tenths
    weight,           \* weighted A-star argument, in halves
    frontier,         \* the heap (a list in heap order)
    index_to_node,    \* interning table of OptimizedPriorityQueueWithPath
    visited,          \* set of <<node, depth>>
    opportunities,    \* list of [path, net_profit, total_cost]
    pc,               \* position of the search
    popped,           \* history: the states popped so far, in order
    tl_algorithm,     \* two_level_search argument (a selector string)
    tl_order,         \* iteration order of the exchange and stablecoin sets
    tl_pos,           \* how many (ex1, ex2, coin1, coin2) iterations are done
    all_opportunities,\* two_level_search result list
    tl_pc,            \* position of two_level_search
    tl_searched,      \* history: the start nodes a search was run from
    balances,         \* WalletManager.balances
    fee_schedules,    \* WalletManager.fee_schedules
    w_call,           \* the last WalletManager call and its arguments
    w_result,         \* the value that call returned
    w_trace,          \* history: the methods the call ran inside
    last_call,        \* the call made on the agent, the graph, an edge or a
                      \* queue, with its arguments
    last_result,      \* what that call returned, or "raised"
    q_class,          \* the class of the priority queue under test
    pending,          \* history: the arguments of the pushes whose entries
                      \* the queue holds
    lost              \* history: a pop that raised has dropped an entry

vars == <<nodes, edges, start_node, max_depth, algorithm, volatility_factor,
          weight, frontier, index_to_node, visited, opportunities, pc, popped,
          tl_algorithm, tl_order, tl_pos, all_opportunities, tl_pc,
          tl_searched, balances, fee_schedules, w_call, w_result, w_trace,
          last_call, last_result, q_class, pending, lost>>

graphVars  == <<nodes, edges>>
searchVars == <<start_node, max_depth, algorithm, volatility_factor, weight,
                frontier, index_to_node, visited, opportunities, pc, popped>>
tlVars     == <<tl_algorithm, tl_order, tl_pos, all_opportunities, tl_pc,
                tl_searched>>
walletVars == <<balances, fee_schedules, w_call, w_result, w_trace>>
apiVars    == <<last_call, last_result>>
queueVars  == <<q_class, pending, lost>>

\* One price/cost unit is 1/Scale.
Scale == 10000

\* One priority unit is 1/(Scale*PScale).
PScale == 20

----------------------------------------------------------------------------
(* Graph model                                                             *)

Exchanges   == {"Kraken", "Coinbase"}
Stablecoins == {"USDT", "USDC"}
Keys        == Exchanges \X Stablecoins

KT == <<"Kraken", "USDT">>
CT == <<"Coinbase", "USDT">>
CU == <<"Coinbase", "USDC">>

\* ExchangeNode(exchange, stablecoin, price): a fresh node without edges.
ExchangeNode(price) == [price |-> price, edges |-> <<>>]

\* Edge(source, target, fee, volatility_cost, transfer_time)
Edge(source, target, fee, volatility_cost, transfer_time) ==
    [source |-> source, target |-> target, fee |-> fee,
     volatility_cost |-> volatility_cost, transfer_time |-> transfer_time,
     weight |-> fee + volatility_cost]

EmptyGraph == [nodes |-> <<>>, edges |-> <<>>]

\* add_node that stores a fresh node also when the key exists.
add_node_replacing(g, key, price) ==
    [g EXCEPT !.nodes = [k \in DOMAIN g.nodes \cup {key} |->
                            IF k = key THEN ExchangeNode(price)
                                       ELSE g.nodes[k]]]

\* ArbitrageGraph.add_node: insert, or overwrite the price of an existing node.
add_node(g, key, price) ==
    IF key \notin DOMAIN g.nodes
    THEN [g EXCEPT !.nodes = [k \in DOMAIN g.nodes \cup {key} |->
                                 IF k = key THEN ExchangeNode(price)
                                            ELSE g.nodes[k]]]
    ELSE [g EXCEPT !.nodes[key].price = price]

\* add_edge that tests only the source key.
add_edge_source_only(g, source_key, target_key, fee, volatility_cost, transfer_time) ==
    IF source_key \notin DOMAIN g.nodes
    THEN [graph |-> g, raised |-> TRUE]
    ELSE [graph |-> [nodes |-> [g.nodes EXCEPT ![source_key].edges =
                                   Append(@, Edge(source_key, target_key, fee,
                                                  volatility_cost,
                                                  transfer_time))],
                     edges |-> Append(g.edges,
                                      Edge(source_key, target_key, fee,
                                           volatility_cost, transfer_time))],
          raised |-> FALSE]

\* ArbitrageGraph.add_edge: "error" when an endpoint is not registered.
add_edge(g, source_key, target_key, fee, volatility_cost, transfer_time) ==
    IF source_key \notin DOMAIN g.nodes \/ target_key \notin DOMAIN g.nodes
    THEN [graph |-> g, raised |-> TRUE]
    ELSE LET edge == Edge(source_key, target_key, fee, volatility_cost,
                          transfer_time)
         IN  [graph |-> [nodes |-> [g.nodes EXCEPT ![source_key].edges =
                                        Append(@, edge)],
                         edges |-> Append(g.edges, edge)],
              raised |-> FALSE]

\* Python's None where a node is expected.
NoneNode == <<"None", "None">>

\* ArbitrageGraph.get_node: the node, or None.
get_node(ns, key) == IF key \in DOMAIN ns THEN key ELSE NoneNode

----------------------------------------------------------------------------
(* The frontier: Python heapq over tuples, and the index-based queue       *)

\* Python's list comparison a < b on lists of ExchangeNode: the first
\* differing pair is compared with <, which ExchangeNode does not define
\* (TypeError, "E"); a proper prefix is smaller.
NodeListLess(a, b) ==
    LET m == IF Len(a) < Len(b) THEN Len(a) ELSE Len(b)
    IN  IF \E i \in 1..m : a[i] # b[i] THEN "E"
        ELSE IF Len(a) < Len(b) THEN "T" ELSE "F"

\* Python's list comparison on lists of integers (lexicographic).
IntListLess(a, b) ==
    LET m == IF Len(a) < Len(b) THEN Len(a) ELSE Len(b)
        D == {i \in 1..m : a[i] # b[i]}
    IN  IF D # {}
        THEN LET i == CHOOSE j \in D : \A k \in D : j <= k
             IN  IF a[i] < b[i] THEN "T" ELSE "F"
        ELSE IF Len(a) < Len(b) THEN "T" ELSE "F"

\* a < b for the tuples (f_cost, total_cost, node, path, depth) the heapq
\* searches push.  dijkstra pushes (total_cost, node, path, depth); its
\* entries carry f_cost = total_cost, which compares the same.
TupleLess(a, b) ==
    IF a.f_cost # b.f_cost THEN (IF a.f_cost < b.f_cost THEN "T" ELSE "F")
    ELSE IF a.total_cost # b.total_cost
         THEN (IF a.total_cost < b.total_cost THEN "T" ELSE "F")
    ELSE IF a.node # b.node THEN "E"
    ELSE IF a.path # b.path THEN NodeListLess(a.path, b.path)
    ELSE IF a.depth < b.depth THEN "T" ELSE "F"

\* a < b for the tuples (f_cost, node_index, total_cost, path_indices, depth)
\* OptimizedPriorityQueueWithPath pushes: numbers and lists of numbers only.
IndexLess(a, b) ==
    IF a.f_cost # b.f_cost THEN (IF a.f_cost < b.f_cost THEN "T" ELSE "F")
    ELSE IF a.node_index # b.node_index
         THEN (IF a.node_index < b.node_index THEN "T" ELSE "F")
    ELSE IF a.total_cost # b.total_cost
         THEN (IF a.total_cost < b.total_cost THEN "T" ELSE "F")
    ELSE IF a.path_indices # b.path_indices
         THEN IntListLess(a.path_indices, b.path_indices)
    ELSE IF a.depth < b.depth THEN "T" ELSE "F"

\* Python's == on two lists of ExchangeNode.
NodeListEq(a, b) ==
    /\ Len(a) = Len(b)
    /\ \A i \in 1..Len(a) : a[i][1] = b[i][1] /\ a[i][2] = b[i][2]

\* a < b for the extra data of two entries of OptimizedPriorityQueue, from
\* position i on.  The extra data are none, (total_cost) or (total_cost,
\* path, depth), as the searches would pass them: the second is a list of
\* ExchangeNode, whose first differing pair is compared with <, which
\* ExchangeNode does not define (TypeError, "E").
RECURSIVE ExtraLess(_, _, _)
ExtraLess(a, b, i) ==
    IF i > Len(a) \/ i > Len(b)
    THEN (IF Len(a) < Len(b) THEN "T" ELSE "F")
    ELSE IF i = 2
    THEN IF NodeListEq(a[i], b[i]) THEN ExtraLess(a, b, i + 1)
         ELSE IF \E j \in 1..Len(a[i]) :
                    j <= Len(b[i]) /\ ~NodeListEq(<<a[i][j]>>, <<b[i][j]>>)
              THEN "E"
              ELSE (IF Len(a[i]) < Len(b[i]) THEN "T" ELSE "F")
    ELSE IF a[i] # b[i] THEN (IF a[i] < b[i] THEN "T" ELSE "F")
    ELSE ExtraLess(a, b, i + 1)

\* a < b for the tuples (priority, node_index, *extra_data)
\* OptimizedPriorityQueue pushes.
QueueLess(a, b) ==
    IF a.priority # b.priority
    THEN (IF a.priority < b.priority THEN "T" ELSE "F")
    ELSE IF a.node_index # b.node_index
         THEN (IF a.node_index < b.node_index THEN "T" ELSE "F")
    ELSE ExtraLess(a.extra_data, b.extra_data, 1)

\* The comparison heapq applies to two heap entries.
Less(a, b) ==
    IF "priority" \in DOMAIN a THEN QueueLess(a, b)
    ELSE IF "node_index" \in DOMAIN a THEN IndexLess(a, b)
    ELSE TupleLess(a, b)

\* The comparison raised TypeError while newitem stood at position pos: the
\* C heapq swaps in place, so the list is left with newitem there.
Raised(heap, newitem, pos) ==
    [heap |-> [heap EXCEPT ![pos + 1] = newitem], raised |-> TRUE]

\* heapq._siftdown(heap, startpos, pos); positions are 0-based as in Python.
\* c is the outcome of "newitem < parent".
RECURSIVE SiftDown(_, _, _, _)
SiftDownCmp(heap, newitem, startpos, pos, parentpos, c) ==
    IF c = "E" THEN Raised(heap, newitem, pos)
    ELSE IF c = "T"
         THEN SiftDown([heap EXCEPT ![pos + 1] = heap[parentpos + 1]],
                       newitem, startpos, parentpos)
         ELSE [heap |-> [heap EXCEPT ![pos + 1] = newitem], raised |-> FALSE]

SiftDown(heap, newitem, startpos, pos) ==
    IF pos > startpos
    THEN SiftDownCmp(heap, newitem, startpos, pos, (pos - 1) \div 2,
                     Less(newitem, heap[((pos - 1) \div 2) + 1]))
    ELSE [heap |-> [heap EXCEPT ![pos + 1] = newitem], raised |-> FALSE]

\* heapq._siftup(heap, pos).  c is the outcome of
\* "heap[childpos] < heap[rightpos]" ("T" when there is no right child).
RECURSIVE SiftUp(_, _, _, _)
SiftUpCmp(heap, newitem, startpos, pos, leftpos, c) ==
    IF c = "E" THEN Raised(heap, newitem, pos)
    ELSE IF c = "T"
         THEN SiftUp([heap EXCEPT ![pos + 1] = heap[leftpos + 1]],
                     newitem, startpos, leftpos)
         ELSE SiftUp([heap EXCEPT ![pos + 1] = heap[leftpos + 2]],
                     newitem, startpos, leftpos + 1)

SiftUp(heap, newitem, startpos, pos) ==
    IF 2 * pos + 1 < Len(heap)
    THEN SiftUpCmp(heap, newitem, startpos, pos, 2 * pos + 1,
                   IF 2 * pos + 2 < Len(heap)
                   THEN Less(heap[2 * pos + 2], heap[2 * pos + 3])
                   ELSE "T")
    ELSE SiftDown(heap, newitem, startpos, pos)

\* heapq.heappush(heap, item)
heappush(heap, item) == SiftDown(Append(heap, item), item, 0, Len(heap))

\* heapq.heappop(heap) on a non-empty heap: the item and the heap left.
heappop(heap) ==
    IF Len(heap) > 1
    THEN [item |-> heap[1]]
         @@ SiftUp(SubSeq(heap, 1, Len(heap) - 1), heap[Len(heap)], 0, 0)
    ELSE [item |-> heap[Len(heap)], heap |-> <<>>, raised |-> FALSE]

\* ExchangeNode.__eq__ (and __hash__): exchange and stablecoin, not price.
\* A node is its key <<exchange, stablecoin>>, or <<exchange, stablecoin,
\* price>> for a node object that belongs to no graph.
NodeEq(a, b) == a[1] = b[1] /\ a[2] = b[2]

\* The node -> index table of the index-based queues, kept as the list
\* index_to_node; indices are 0-based as in the program.
IndexOf(tab, node) == (CHOOSE i \in 1..Len(tab) : NodeEq(tab[i], node)) - 1

Intern(tab, node) ==
    IF \E i \in 1..Len(tab) : NodeEq(tab[i], node) THEN tab
    ELSE Append(tab, node)

RECURSIVE InternAll(_, _)
InternAll(tab, path) ==
    IF path = <<>> THEN tab
    ELSE InternAll(Intern(tab, Head(path)), Tail(path))

\* A heappush/heappop outcome r as the outcome of a queue operation.
WithTable(r, tab) ==
    [item |-> r.item, q |-> [heap |-> r.heap, index_to_node |-> tab],
     raised |-> r.raised]

\* the heap entry of OptimizedPriorityQueueWithPath for a search state
IndexEntry(tab, f_cost, total_cost, node, path, depth) ==
    [f_cost |-> f_cost, node_index |-> IndexOf(tab, node),
     total_cost |-> total_cost,
     path_indices |-> [i \in 1..Len(path) |-> IndexOf(tab, path[i])],
     depth |-> depth]

\* the search state an entry of OptimizedPriorityQueueWithPath stands for
NodeEntry(tab, e) ==
    [f_cost |-> e.f_cost, total_cost |-> e.total_cost,
     node |-> tab[e.node_index + 1],
     path |-> [i \in 1..Len(e.path_indices) |-> tab[e.path_indices[i] + 1]],
     depth |-> e.depth]

PushInterned(heap, tab, f_cost, total_cost, node, path, depth) ==
    WithTable(heappush(heap, IndexEntry(tab, f_cost, total_cost, node, path,
                                        depth)) @@ [item |-> <<>>],
              tab)

\* OptimizedPriorityQueueWithPath.push(f_cost, total_cost, node, path, depth)
OptimizedPush(q, f_cost, total_cost, node, path, depth) ==
    PushInterned(q.heap, InternAll(Intern(q.index_to_node, node), path),
                 f_cost, total_cost, node, path, depth)

PopInterned(r, tab) ==
    WithTable([r EXCEPT !.item = NodeEntry(tab, @)], tab)

\* OptimizedPriorityQueueWithPath.pop() on a non-empty queue
OptimizedPop(q) == PopInterned(heappop(q.heap), q.index_to_node)

\* Python's None where a tuple is expected.
None == <<>>

\* A queue operation that raised error and left the queue as q.
QueueRaised(q, error) == [item |-> <<error>>, q |-> q, raised |-> TRUE]

\* The outcome r of heappush/heappop inside a method of the queue: a
\* TypeError of a comparison leaves the method.
OrTypeError(r) ==
    IF r.raised THEN QueueRaised(r.q, "TypeError") ELSE r

\* the heap entry (priority, index, *extra_data) of OptimizedPriorityQueue
QueueEntry(tab, priority, node, extra_data) ==
    [priority |-> priority, node_index |-> IndexOf(tab, node),
     extra_data |-> extra_data]

QueuePushInterned(heap, tab, priority, node, extra_data) ==
    OrTypeError(WithTable(heappush(heap, QueueEntry(tab, priority, node,
                                                    extra_data))
                          @@ [item |-> None],
                          tab))

\* OptimizedPriorityQueue.push(priority, node, *extra_data)
queue_push(q, priority, node, extra_data) ==
    QueuePushInterned(q.heap, Intern(q.index_to_node, node), priority, node,
                      extra_data)

\* the tuple (priority, node, *extra_data) pop returns for a heap entry
QueueItem(tab, e) == <<e.priority, tab[e.node_index + 1]>> \o e.extra_data

\* OptimizedPriorityQueue.pop(): IndexError on an empty queue.
queue_pop(q) ==
    IF q.heap = <<>> THEN QueueRaised(q, "IndexError")
    ELSE OrTypeError(WithTable([heappop(q.heap) EXCEPT
                                   !.item = QueueItem(q.index_to_node, @)],
                               q.index_to_node))

\* OptimizedPriorityQueue.peek(): "priority, index = self.heap[0]" raises
\* ValueError when the entry has more than two components.
queue_peek(q) ==
    IF q.heap = <<>> THEN [item |-> None, q |-> q, raised |-> FALSE]
    ELSE IF q.heap[1].extra_data # <<>> THEN QueueRaised(q, "ValueError")
    ELSE [item |-> <<q.heap[1].priority,
                     q.index_to_node[q.heap[1].node_index + 1]>>,
          q |-> q, raised |-> FALSE]

\* OptimizedPriorityQueue.empty(), OptimizedPriorityQueueWithPath.empty()
queue_empty(q) == Len(q.heap) = 0

\* OptimizedPriorityQueue.clear()
queue_clear(q) ==
    [item |-> None, q |-> [heap |-> <<>>, index_to_node |-> <<>>],
     raised |-> FALSE]

\* OptimizedPriorityQueueWithPath.pop(): IndexError on an empty queue.
path_queue_pop(q) ==
    IF q.heap = <<>> THEN QueueRaised(q, "IndexError") ELSE OptimizedPop(q)

Algorithms == {"dijkstra", "astar", "weighted_astar", "astar_optimized"}

\* frontier push of one search state, as the running algorithm does it
Push(alg, q, f_cost, total_cost, node, path, depth) ==
    IF alg = "astar_optimized"
    THEN OptimizedPush(q, f_cost, total_cost, node, path, depth)
    ELSE WithTable(heappush(q.heap,
                            [f_cost |-> f_cost, total_cost |-> total_cost,
                             node |-> node, path |-> path, depth |-> depth])
                   @@ [item |-> <<>>],
                   q.index_to_node)

\* frontier pop, as the running algorithm does it
Pop(alg, q) ==
    IF alg = "astar_optimized"
    THEN OptimizedPop(q)
    ELSE WithTable(heappop(q.heap), q.index_to_node)

----------------------------------------------------------------------------
(* The cycle searches                                                      *)

Abs(x) == IF x < 0 THEN -x ELSE x

\* volatility_heuristic, in units of 1/(10*Scale):
\*   transfer_time * 0.001 + |current.price - target.price| * volatility_factor
\* with volatility_factor given in tenths.
volatility_heuristic(current_price, target_price, edge, vf) ==
    edge.transfer_time * 100 + Abs(current_price - target_price) * vf

\* The priority of a pushed state, in units of 1/(PScale*Scale) for the
\* heuristic searches (w is twice the weighted A-star weight) and in units
\* of 1/Scale for dijkstra, whose priority is the cost itself.
f_new(alg, new_cost, heuristic, w) ==
    IF alg = "dijkstra" THEN new_cost
    ELSE IF alg = "weighted_astar" THEN PScale * new_cost + w * heuristic
    ELSE PScale * new_cost + 2 * heuristic

\* net_profit = initial_price - (initial_price * (1 + total_cost)),
\* in units of 1/Scale^2
net_profit(initial_price, total_cost) ==
    initial_price * Scale - initial_price * (Scale + total_cost)

\* A filter that lets every edge pass.
admit_all(current_price, neighbor_price, edge) == TRUE

\* the one-hop filter: price_diff > edge.weight
admissible(current_price, neighbor_price, edge) ==
    current_price - neighbor_price > edge.weight

\* The state pushed for one edge out of the popped state item.
PushNeighbor(ns, alg, vf, w, item, edge, q) ==
    Push(alg, q,
         f_new(alg, item.total_cost + edge.weight,
               volatility_heuristic(ns[item.node].price,
                                    ns[edge.target].price, edge, vf), w),
         item.total_cost + edge.weight, edge.target,
         Append(item.path, edge.target), item.depth + 1)

\* for edge in current.edges: push the neighbor if the edge is admissible.
\* es is the rest of current.edges, r the outcome of the pushes so far.
RECURSIVE Expand(_, _, _, _, _, _, _)
ExpandNext(ns, alg, vf, w, item, es, r) ==
    IF r.raised THEN [q |-> r.q, raised |-> TRUE]
    ELSE Expand(ns, alg, vf, w, item, es, r.q)

Expand(ns, alg, vf, w, item, es, q) ==
    IF es = <<>> THEN [q |-> q, raised |-> FALSE]
    ELSE IF admissible(ns[item.node].price, ns[Head(es).target].price,
                       Head(es))
         THEN ExpandNext(ns, alg, vf, w, item, Tail(es),
                         PushNeighbor(ns, alg, vf, w, item, Head(es), q))
         ELSE Expand(ns, alg, vf, w, item, Tail(es), q)

\* The list left in the order of emission.
KeepOrder(s) == s

\* opportunities.sort(key=lambda x: x[1], reverse=True): a stable sort,
\* equal profits keep their order.
RECURSIVE SortByProfit(_)
SortByProfit(s) ==
    IF s = <<>> THEN <<>>
    ELSE LET rest == SortByProfit(Tail(s))
             x    == Head(s)
             k    == Cardinality({i \in 1..Len(rest) :
                                     rest[i].net_profit > x.net_profit})
         IN  SubSeq(rest, 1, k) \o <<x>> \o SubSeq(rest, k + 1, Len(rest))

\* The search state before the loop: frontier = [(0, start, [start], 0)].
SearchStart(alg, start) ==
    [q |-> Push(alg, [heap |-> <<>>, index_to_node |-> <<>>], 0, 0, start,
                <<start>>, 0).q,
     visited |-> {}, opportunities |-> <<>>, pc |-> "loop", popped |-> <<>>]

\* What one popped state leaves behind in the history variable popped.
PoppedRecord(item, kind) ==
    [node |-> item.node, depth |-> item.depth, path |-> item.path,
     total_cost |-> item.total_cost, kind |-> kind]

\* The loop body after "for edge in current.edges" has run with outcome x.
AfterExpand(st, item, x) ==
    IF x.raised THEN [st EXCEPT !.pc = "raised"]
    ELSE [st EXCEPT !.q = x.q,
                    !.visited = @ \cup {<<item.node, item.depth>>},
                    !.popped = Append(@, PoppedRecord(item, "expanded"))]

\* if len(path) > 1 and current == start_node: the popped state closes a
\* cycle; it is emitted when its net profit is positive, and not expanded.
CycleFound(st, item, q, profit) ==
    [st EXCEPT !.q = q,
               !.visited = @ \cup {<<item.node, item.depth>>},
               !.popped = Append(@, PoppedRecord(item, "cycle")),
               !.opportunities =
                   IF profit > 0
                   THEN Append(@, [path |-> item.path, net_profit |-> profit,
                                   total_cost |-> item.total_cost])
                   ELSE @]

\* LoopBody with the cycle test "len(path) > 2": a self-loop back to the
\* start is expanded instead of being closed.
LoopBodyLongCycles(ns, start, depth_limit, alg, vf, w, st, item, q) ==
    IF <<item.node, item.depth>> \in st.visited
    THEN [st EXCEPT !.q = q,
                    !.popped = Append(@, PoppedRecord(item, "skipped"))]
    ELSE IF Len(item.path) > 2 /\ item.node = start
    THEN CycleFound(st, item, q, net_profit(ns[start].price, item.total_cost))
    ELSE IF item.depth >= depth_limit
    THEN [st EXCEPT !.q = q,
                    !.visited = @ \cup {<<item.node, item.depth>>},
                    !.popped = Append(@, PoppedRecord(item, "pruned"))]
    ELSE AfterExpand(st, item,
                     Expand(ns, alg, vf, w, item, ns[item.node].edges, q))

\* LoopBody with the depth test "depth > max_depth" (off by one).
LoopBodyDepthOffByOne(ns, start, depth_limit, alg, vf, w, st, item, q) ==
    IF <<item.node, item.depth>> \in st.visited
    THEN [st EXCEPT !.q = q,
                    !.popped = Append(@, PoppedRecord(item, "skipped"))]
    ELSE IF Len(item.path) > 1 /\ item.node = start
    THEN CycleFound(st, item, q, net_profit(ns[start].price, item.total_cost))
    ELSE IF item.depth > depth_limit
    THEN [st EXCEPT !.q = q,
                    !.visited = @ \cup {<<item.node, item.depth>>},
                    !.popped = Append(@, PoppedRecord(item, "pruned"))]
    ELSE AfterExpand(st, item,
                     Expand(ns, alg, vf, w, item, ns[item.node].edges, q))

\* LoopBody with the depth test skipped for the initial state.
LoopBodyStartAlwaysExpanded(ns, start, depth_limit, alg, vf, w, st, item, q) ==
    IF <<item.node, item.depth>> \in st.visited
    THEN [st EXCEPT !.q = q,
                    !.popped = Append(@, PoppedRecord(item, "skipped"))]
    ELSE IF Len(item.path) > 1 /\ item.node = start
    THEN CycleFound(st, item, q, net_profit(ns[start].price, item.total_cost))
    ELSE IF item.depth >= depth_limit /\ item.depth > 0
    THEN [st EXCEPT !.q = q,
                    !.visited = @ \cup {<<item.node, item.depth>>},
                    !.popped = Append(@, PoppedRecord(item, "pruned"))]
    ELSE AfterExpand(st, item,
                     Expand(ns, alg, vf, w, item, ns[item.node].edges, q))

\* LoopBody with the visited set keyed by the node alone being ignored: a
\* state is never skipped.
LoopBodyNoVisitedCheck(ns, start, depth_limit, alg, vf, w, st, item, q) ==
    IF Len(item.path) > 1 /\ item.node = start
    THEN CycleFound(st, item, q, net_profit(ns[start].price, item.total_cost))
    ELSE IF item.depth >= depth_limit
    THEN [st EXCEPT !.q = q,
                    !.visited = @ \cup {<<item.node, item.depth>>},
                    !.popped = Append(@, PoppedRecord(item, "pruned"))]
    ELSE AfterExpand(st, item,
                     Expand(ns, alg, vf, w, item, ns[item.node].edges, q))

\* The loop body after the pop: item is the popped state, q the frontier left.
LoopBody(ns, start, depth_limit, alg, vf, w, st, item, q) ==
    IF <<item.node, item.depth>> \in st.visited
    THEN [st EXCEPT !.q = q,
                    !.popped = Append(@, PoppedRecord(item, "skipped"))]
    ELSE IF Len(item.path) > 1 /\ item.node = start
    THEN CycleFound(st, item, q, net_profit(ns[start].price, item.total_cost))
    ELSE IF item.depth >= depth_limit
    THEN [st EXCEPT !.q = q,
                    !.visited = @ \cup {<<item.node, item.depth>>},
                    !.popped = Append(@, PoppedRecord(item, "pruned"))]
    ELSE AfterExpand(st, item,
                     Expand(ns, alg, vf, w, item, ns[item.node].edges, q))

\* The pop; a TypeError raised by a heap comparison leaves the function.
AfterPop(ns, start, depth_limit, alg, vf, w, st, p) ==
    IF p.raised THEN [st EXCEPT !.pc = "raised"]
    ELSE LoopBody(ns, start, depth_limit, alg, vf, w, st, p.item, p.q)

\* One pass of "while frontier:" (pc stays "loop", or becomes "raised" when
\* a heap comparison raises TypeError), or the sort and return once the
\* frontier is empty (pc becomes "done").
SearchStep(ns, start, depth_limit, alg, vf, w, st) ==
    IF st.q.heap = <<>>
    THEN [st EXCEPT !.opportunities = SortByProfit(@), !.pc = "done"]
    ELSE AfterPop(ns, start, depth_limit, alg, vf, w, st, Pop(alg, st.q))

\* The whole call: the loop run to its end.
RECURSIVE RunSearch(_, _, _, _, _, _, _)
RunSearch(ns, start, depth_limit, alg, vf, w, st) ==
    IF st.pc # "loop" THEN st
    ELSE RunSearch(ns, start, depth_limit, alg, vf, w,
                   SearchStep(ns, start, depth_limit, alg, vf, w, st))

----------------------------------------------------------------------------
(* Graphs the searches are run on                                          *)

\* Prices 1.00 and 1.01.
PriceSet == {10000, 10100}

\* Edges a graph may hold: <<source, target, fee, volatility_cost,
\* transfer_time>>.  Fees 0.001 and 0.0005, rebates (negative fees, which
\* add_edge accepts) -0.002, -0.001 and -0.02, a self-loop and parallel
\* edges.
EdgePool ==
    << <<KT, CT, 10, 0, 0>>,
       <<CT, CU, 10, 0, 0>>,
       <<CU, KT, 10, 0, 0>>,
       <<KT, CU, 10, 0, 0>>,
       <<KT, CT, -20, 0, 60>>,
       <<CT, KT, -20, 0, 60>>,
       <<KT, KT, -10, 0, 0>>,
       <<KT, CT, 5, 1, 60>>,
       <<CU, KT, -200, 0, 0>> >>

\* The most edges a graph holds.
MaxEdges == 3

\* The largest max_depth a search is called with.
MaxDepth == 3

RECURSIVE AddNodes(_, _, _)
AddNodes(g, keys, pm) ==
    IF keys = <<>> THEN g
    ELSE AddNodes(add_node(g, Head(keys), pm[Head(keys)]), Tail(keys), pm)

RECURSIVE AddEdges(_, _, _)
AddEdges(g, S, i) ==
    IF i > Len(EdgePool) THEN g
    ELSE IF i \in S
         THEN LET e == EdgePool[i]
              IN  AddEdges(add_edge(g, e[1], e[2], e[3], e[4], e[5]).graph,
                           S, i + 1)
         ELSE AddEdges(g, S, i + 1)

\* The graph built by add_node for the three nodes with prices pm, then
\* add_edge for the pool edges chosen by S, in pool order.
BuildGraph(pm, S) == AddEdges(AddNodes(EmptyGraph, <<KT, CT, CU>>, pm), S, 1)

EdgeChoices(n) == {S \in SUBSET (1..Len(EdgePool)) : Cardinality(S) <= n}

GraphIs(pm, S) ==
    \E g \in {BuildGraph(pm, S)} : nodes = g.nodes /\ edges = g.edges

NoSearch ==
    /\ start_node = NoneNode /\ max_depth = 0 /\ algorithm = "None"
    /\ volatility_factor = 0 /\ weight = 0
    /\ frontier = <<>> /\ index_to_node = <<>> /\ visited = {}
    /\ opportunities = <<>> /\ pc = "idle" /\ popped = <<>>

NoTwoLevel ==
    /\ tl_algorithm = "None"
    /\ tl_order = [exchanges |-> <<>>, stablecoins |-> <<>>] /\ tl_pos = 0
    /\ all_opportunities = <<>> /\ tl_pc = "idle" /\ tl_searched = {}

NoCall == last_call = [op |-> "none"] /\ last_result = <<>>

NoQueue == q_class = "none" /\ pending = <<>> /\ lost = FALSE

NoWallet ==
    /\ balances = <<>> /\ fee_schedules = <<>>
    /\ w_call = [op |-> "none"] /\ w_result = <<>> /\ w_trace = <<>>

Init ==
    /\ \E pm \in [{KT, CT, CU} -> PriceSet], S \in EdgeChoices(MaxEdges) :
          GraphIs(pm, S)
    /\ NoSearch /\ NoTwoLevel /\ NoWallet /\ NoCall /\ NoQueue

\* The search state held in the variables.
SearchState ==
    [q |-> [heap |-> frontier, index_to_node |-> index_to_node],
     visited |-> visited, opportunities |-> opportunities, pc |-> pc,
     popped |-> popped]

SetSearchState(st) ==
    /\ frontier' = st.q.heap
    /\ index_to_node' = st.q.index_to_node
    /\ visited' = st.visited
    /\ opportunities' = st.opportunities
    /\ pc' = st.pc
    /\ popped' = st.popped

\* A call of dijkstra_arbitrage, astar_arbitrage, weighted_astar_arbitrage or
\* astar_arbitrage_optimized(start_node, max_depth, volatility_factor = 0.1,
\* weight = 1.5), up to the loop.
search_call ==
    /\ pc = "idle"
    /\ \E s \in DOMAIN nodes, d \in -1..MaxDepth, a \in Algorithms :
          /\ start_node' = s
          /\ max_depth' = d
          /\ algorithm' = a
          /\ volatility_factor' = 1
          /\ weight' = 3
          /\ \E st \in {SearchStart(a, s)} : SetSearchState(st)
    /\ UNCHANGED <<queueVars, apiVars, graphVars, tlVars, walletVars>>

\* One pass of the while loop.
search_loop ==
    /\ pc = "loop"
    /\ frontier # <<>>
    /\ \E st \in {SearchStep(nodes, start_node, max_depth, algorithm,
                              volatility_factor, weight, SearchState)} :
          SetSearchState(st)
    /\ UNCHANGED <<queueVars, apiVars, graphVars, start_node, max_depth, algorithm,
                   volatility_factor, weight, tlVars, walletVars>>

\* The frontier is empty: sort the opportunities and return them.
search_return ==
    /\ pc = "loop"
    /\ frontier = <<>>
    /\ \E st \in {SearchStep(nodes, start_node, max_depth, algorithm,
                              volatility_factor, weight, SearchState)} :
          SetSearchState(st)
    /\ UNCHANGED <<queueVars, apiVars, graphVars, start_node, max_depth, algorithm,
                   volatility_factor, weight, tlVars, walletVars>>

Next == search_call \/ search_loop \/ search_return

Spec == Init /\ [][Next]_vars

----------------------------------------------------------------------------
(* two_level_search                                                        *)

\* The orders a Python set of these elements may be iterated in.
Orders(S) ==
    {o \in [1..Cardinality(S) -> S] :
        \A i, j \in 1..Cardinality(S) : i # j => o[i] # o[j]}

\* set(node.exchange for node in nodes), set(node.stablecoin for node in nodes)
ExchangesOf(ns) == {k[1] : k \in DOMAIN ns}
StablecoinsOf(ns) == {k[2] : k \in DOMAIN ns}

\* The (exchange1, exchange2, stablecoin1, stablecoin2) for which the four
\* nested loops reach the innermost body, in loop order; exchange1 ==
\* exchange2 is skipped by the second loop.
RECURSIVE Flatten(_)
Flatten(ss) == IF ss = <<>> THEN <<>> ELSE Head(ss) \o Flatten(Tail(ss))

LoopTuples(order) ==
    LET ex == order.exchanges
        co == order.stablecoins
    IN  Flatten([i \in 1..Len(ex) |->
          Flatten([j \in 1..Len(ex) |->
            IF ex[i] = ex[j] THEN <<>>
            ELSE Flatten([k \in 1..Len(co) |->
                   [l \in 1..Len(co) |-> <<ex[i], ex[j], co[k], co[l]>>]])])])

\* if algorithm == 'astar': astar_arbitrage(...) else: dijkstra_arbitrage(...)
Dispatch(selector) == IF selector = "astar" THEN "astar" ELSE "dijkstra"

\* The call of the single-source search made for one pair: the search state
\* it ends in.
SingleSource(ns, selector, start, depth_limit, vf) ==
    RunSearch(ns, start, depth_limit, Dispatch(selector), vf, 3,
              SearchStart(Dispatch(selector), start))

\* any(node.exchange == exchange2 and node.stablecoin == stablecoin2
\*     for node in path)
VisitsTarget(path, exchange2, stablecoin2) ==
    \E i \in 1..Len(path) : path[i][1] = exchange2 /\ path[i][2] = stablecoin2

\* The description f"{exchange1}({stablecoin1}) -> {exchange2}({stablecoin2})"
\* is kept as the four names it is formatted from.
Description(t) == <<t[1], t[3], t[2], t[4]>>

\* The loop over the search's results without the test for the target.
RECURSIVE RelevantUnfiltered(_, _)
RelevantUnfiltered(opps, t) ==
    IF opps = <<>> THEN <<>>
    ELSE <<[path |-> Head(opps).path,
            net_profit |-> Head(opps).net_profit,
            total_cost |-> Head(opps).total_cost,
            description |-> Description(t)]>>
         \o RelevantUnfiltered(Tail(opps), t)

\* for path, profit, cost in opportunities: keep those through the target.
RECURSIVE Relevant(_, _)
Relevant(opps, t) ==
    IF opps = <<>> THEN <<>>
    ELSE IF VisitsTarget(Head(opps).path, t[2], t[4])
         THEN <<[path |-> Head(opps).path,
                 net_profit |-> Head(opps).net_profit,
                 total_cost |-> Head(opps).total_cost,
                 description |-> Description(t)]>> \o Relevant(Tail(opps), t)
         ELSE Relevant(Tail(opps), t)

\* The innermost loop body after the search for tuple t ended in state st.
AfterSearch(tl, t, st) ==
    IF st.pc = "raised" THEN [tl EXCEPT !.pc = "raised"]
    ELSE [tl EXCEPT !.all = @ \o Relevant(st.opportunities, t),
                    !.searched = @ \cup {<<t[1], t[3]>>},
                    !.pos = @ + 1]

\* The innermost loop body for the tuple t.
PairBody(ns, selector, depth_limit, vf, tl, t) ==
    IF get_node(ns, <<t[1], t[3]>>) = NoneNode THEN [tl EXCEPT !.pos = @ + 1]
    ELSE IF get_node(ns, <<t[2], t[4]>>) = NoneNode
    THEN [tl EXCEPT !.pos = @ + 1]
    ELSE AfterSearch(tl, t,
                     SingleSource(ns, selector, get_node(ns, <<t[1], t[3]>>),
                                  depth_limit, vf))

\* The two_level_search state held in the variables.
TwoLevelState ==
    [all |-> all_opportunities, searched |-> tl_searched, pos |-> tl_pos,
     pc |-> tl_pc]

SetTwoLevelState(tl) ==
    /\ all_opportunities' = tl.all
    /\ tl_searched' = tl.searched
    /\ tl_pos' = tl.pos
    /\ tl_pc' = tl.pc

Selectors == {"astar", "dijkstra", "weighted_astar"}

\* The most edges of a graph handed to two_level_search, and the largest
\* max_depth it is called with.
TwoLevelMaxEdges == 2

TwoLevelMaxDepth == 2

\* A graph of three pool edges: a self-loop on (Kraken, USDT) and a cycle
\* through (Coinbase, USDC), two cycles of different profit from one start.
TwoCycleEdges == {4, 7, 9}

TwoLevelInit ==
    /\ \E pm \in [{KT, CT, CU} -> PriceSet],
          S \in EdgeChoices(TwoLevelMaxEdges) \cup {TwoCycleEdges} :
          GraphIs(pm, S)
    /\ NoSearch /\ NoTwoLevel /\ NoWallet /\ NoCall /\ NoQueue

\* A call two_level_search(graph, algorithm, max_depth, volatility_factor =
\* 0.1), up to the loops.
two_level_call ==
    /\ tl_pc = "idle"
    /\ \E a \in Selectors, d \in 1..TwoLevelMaxDepth,
          ex \in Orders(ExchangesOf(nodes)),
          co \in Orders(StablecoinsOf(nodes)) :
          /\ tl_algorithm' = a
          /\ max_depth' = d
          /\ volatility_factor' = 1
          /\ tl_order' = [exchanges |-> ex, stablecoins |-> co]
    /\ tl_pos' = 0
    /\ all_opportunities' = <<>>
    /\ tl_searched' = {}
    /\ tl_pc' = "loop"
    /\ UNCHANGED <<queueVars, apiVars, graphVars, start_node, algorithm, weight, frontier,
                   index_to_node, visited, opportunities, pc, popped,
                   walletVars>>

\* One pass of the innermost loop body.
two_level_pair ==
    /\ tl_pc = "loop"
    /\ tl_pos < Len(LoopTuples(tl_order))
    /\ \E tl \in {PairBody(nodes, tl_algorithm, max_depth, volatility_factor,
                           TwoLevelState, LoopTuples(tl_order)[tl_pos + 1])} :
          SetTwoLevelState(tl)
    /\ UNCHANGED <<queueVars, apiVars, graphVars, searchVars, tl_algorithm, tl_order, walletVars>>

\* The loops are over: sort by profit and return.
two_level_return ==
    /\ tl_pc = "loop"
    /\ tl_pos = Len(LoopTuples(tl_order))
    /\ all_opportunities' = SortByProfit(all_opportunities)
    /\ tl_pc' = "done"
    /\ UNCHANGED <<queueVars, apiVars, graphVars, searchVars, tl_algorithm, tl_order, tl_pos,
                   tl_searched, walletVars>>

TwoLevelNext == two_level_call \/ two_level_pair \/ two_level_return

TwoLevelSpec == TwoLevelInit /\ [][TwoLevelNext]_vars

----------------------------------------------------------------------------
(* WalletManager                                                           *)
(* Volumes, funds and balances are whole USD; fee and profit rates are in  *)
(* units of 1/Scale, so a net profit is in units of 1/Scale USD.           *)

\* A fee function: the rate of the first tier whose bound the volume is
\* below, else the rate rest.
FeeSchedule(tiers, rest) == [tiers |-> tiers, rest |-> rest]

RECURSIVE TierRate(_, _, _)
TierRate(tiers, rest, volume) ==
    IF tiers = <<>> THEN rest
    ELSE IF volume < Head(tiers)[1] THEN Head(tiers)[2]
    ELSE TierRate(Tail(tiers), rest, volume)

fee_func(schedule, volume) == TierRate(schedule.tiers, schedule.rest, volume)

\* _create_default_fee_schedule: 0.1% below 1,000, 0.05% below 10,000, 0.02%
\* below 100,000, else 0.01%.
_default_fee_schedule ==
    FeeSchedule(<< <<1000, 10>>, <<10000, 5>>, <<100000, 2>> >>, 1)

\* Custom schedules handed to set_fee_schedule: no fee, and 0.01% below
\* 10,000 but 0.2% from there on.
FreeSchedule == FeeSchedule(<<>>, 0)
SteepSchedule == FeeSchedule(<< <<10000, 1>> >>, 20)
CustomSchedules == {FreeSchedule, SteepSchedule}

\* dict[key] = value
DictSet(d, key, value) == [k \in DOMAIN d \cup {key} |->
                              IF k = key THEN value ELSE d[k]]

\* self.fee_schedules.get(exchange, self._default_fee_schedule)(volume)
get_effective_fee(schedules, exchange, volume) ==
    fee_func(IF exchange \in DOMAIN schedules THEN schedules[exchange]
             ELSE _default_fee_schedule, volume)

\* max in place of min.
MinAsMax(a, b) == IF a < b THEN b ELSE a

\* min(a, b)
Min(a, b) == IF a < b THEN a ELSE b

\* The candidate volumes without available_funds itself.
test_volumes_tiers_only(available_funds) ==
    {0, Min(1000, available_funds), Min(10000, available_funds),
     Min(100000, available_funds)}

\* sorted(set([0.0, min(1000, f), min(10000, f), min(100000, f), f]))
test_volumes(available_funds) ==
    {0, Min(1000, available_funds), Min(10000, available_funds),
     Min(100000, available_funds), available_funds}

\* The elements of the finite set S of numbers in increasing order.
RECURSIVE Sorted(_)
Sorted(S) ==
    IF S = {} THEN <<>>
    ELSE <<CHOOSE x \in S : \A y \in S : x <= y>>
         \o Sorted(S \ {CHOOSE x \in S : \A y \in S : x <= y})

\* total_fee_rate: the sum of get_effective_fee over the nodes of the path.
RECURSIVE total_fee_rate(_, _, _)
total_fee_rate(schedules, path, volume) ==
    IF path = <<>> THEN 0
    ELSE get_effective_fee(schedules, Head(path)[1], volume)
         + total_fee_rate(schedules, Tail(path), volume)

\* net_profit_rate * volume
volume_net_profit(schedules, path, base_profit_rate, base_cost_rate, volume) ==
    (base_profit_rate - base_cost_rate
     - total_fee_rate(schedules, path, volume)) * volume

\* if net_profit >= best_net_profit: a candidate that only equals the best
\* replaces it.
BetterOrEqual(profit, best_net_profit) == profit >= best_net_profit

\* if net_profit > best_net_profit
Better(profit, best_net_profit) == profit > best_net_profit

\* for volume in test_volumes: ...; best is <<best_volume, best_net_profit>>.
RECURSIVE BestVolume(_, _, _, _, _, _)
BestVolume(schedules, path, base_profit_rate, base_cost_rate, volumes, best) ==
    IF volumes = <<>> THEN best
    ELSE IF Head(volumes) <= 0
    THEN BestVolume(schedules, path, base_profit_rate, base_cost_rate,
                    Tail(volumes), best)
    ELSE IF Better(volume_net_profit(schedules, path, base_profit_rate,
                                     base_cost_rate, Head(volumes)), best[2])
    THEN BestVolume(schedules, path, base_profit_rate, base_cost_rate,
                    Tail(volumes),
                    <<Head(volumes),
                      volume_net_profit(schedules, path, base_profit_rate,
                                        base_cost_rate, Head(volumes))>>)
    ELSE BestVolume(schedules, path, base_profit_rate, base_cost_rate,
                    Tail(volumes), best)

\* WalletManager.optimize_volume: <<optimal_volume, net_profit>>.
optimize_volume(schedules, path, base_profit_rate, base_cost_rate, available_funds) ==
    IF path = <<>> \/ available_funds <= 0 THEN <<0, 0>>
    ELSE BestVolume(schedules, path, base_profit_rate, base_cost_rate,
                    Sorted(test_volumes(available_funds)), <<0, 0>>)

\* self.balances.get(key, 0.0)
get_balance(bal, key) == IF key \in DOMAIN bal THEN bal[key] ELSE 0

\* for node in path: min_balance = min(min_balance, balance), from the
\* running minimum m.
RECURSIVE MinBalanceFrom(_, _, _)
MinBalanceFrom(bal, path, m) ==
    IF path = <<>> THEN m
    ELSE MinBalanceFrom(bal, Tail(path), Min(m, get_balance(bal, Head(path))))

\* WalletManager.get_max_executable_amount: 0.0 for an empty path, else the
\* least balance on the path (the running minimum starts at infinity, so the
\* first balance replaces it).
get_max_executable_amount(bal, path) ==
    IF path = <<>> THEN 0
    ELSE MinBalanceFrom(bal, Tail(path), get_balance(bal, Head(path)))

\* can_execute = max_amount > min_amount
SufficientStrict(max_amount, min_amount) == max_amount > min_amount

\* can_execute = max_amount >= min_amount
Sufficient(max_amount, min_amount) == max_amount >= min_amount

\* The dictionary evaluate_opportunity returns after the optimizer gave opt.
Evaluated(max_amount, opt) ==
    [executable |-> opt[2] > 0, max_amount |-> max_amount,
     optimal_volume |-> opt[1], optimal_profit |-> opt[2],
     can_execute |-> TRUE, reason |-> "Sufficient funds available"]

\* WalletManager.evaluate_opportunity: the dictionary returned, and the
\* methods run, given max_amount = get_max_executable_amount(path).
evaluate_opportunity(bal, schedules, path, predicted_profit_rate, predicted_cost_rate, min_amount, max_amount) ==
    IF ~Sufficient(max_amount, min_amount)
    THEN [result |-> [executable |-> FALSE, max_amount |-> max_amount,
                      optimal_volume |-> 0, optimal_profit |-> 0,
                      can_execute |-> FALSE, reason |-> "Insufficient funds"],
          trace |-> <<"get_max_executable_amount">>]
    ELSE [result |-> Evaluated(max_amount,
                               optimize_volume(schedules, path,
                                               predicted_profit_rate,
                                               predicted_cost_rate,
                                               max_amount)),
          trace |-> <<"get_max_executable_amount", "optimize_volume">>]

\* The inputs of the wallet calls.
WalletPaths == {<<>>, <<KT>>, <<KT, CT>>, <<KT, CT, KT>>}
ProfitRates == {0, 7, 10, 30}
CostRates == {0, 2, 5}
FundsSet ==
    {-500, 0, 400, 1000, 2500, 10000, 50000, 60000, 100000, 150000}
BalanceSet == {0, 5000}
MinAmounts == {0, 100, 5000}

OptimizeCalls ==
    {[op |-> "optimize_volume", path |-> path, base_profit_rate |-> pr,
      base_cost_rate |-> cr, available_funds |-> funds] :
        path \in WalletPaths, pr \in ProfitRates, cr \in CostRates,
        funds \in FundsSet}

EvaluateCalls ==
    {[op |-> "evaluate_opportunity", path |-> path,
      predicted_profit_rate |-> pr, predicted_cost_rate |-> cr,
      min_amount |-> m] :
        path \in WalletPaths, pr \in ProfitRates, cr \in CostRates,
        m \in MinAmounts}

\* A fresh WalletManager, and the arguments of the call its user is to make.
WalletInit ==
    /\ nodes = EmptyGraph.nodes /\ edges = EmptyGraph.edges
    /\ NoSearch /\ NoTwoLevel /\ NoCall /\ NoQueue
    /\ balances = <<>> /\ fee_schedules = <<>>
    /\ w_call \in OptimizeCalls \cup EvaluateCalls
    /\ w_result = <<>>
    /\ w_trace = <<>>

\* wallet.set_balance(exchange, coin, balance)
set_balance ==
    /\ \E key \in {KT, CT}, balance \in BalanceSet :
          balances' = DictSet(balances, key, balance)
    /\ w_result' = <<>>
    /\ w_trace' = <<>>
    /\ UNCHANGED <<queueVars, apiVars, graphVars, searchVars, tlVars, fee_schedules, w_call>>

\* wallet.set_fee_schedule(exchange, fee_func)
set_fee_schedule ==
    /\ \E exchange \in Exchanges, f \in CustomSchedules :
          fee_schedules' = DictSet(fee_schedules, exchange, f)
    /\ w_result' = <<>>
    /\ w_trace' = <<>>
    /\ UNCHANGED <<queueVars, apiVars, graphVars, searchVars, tlVars, balances, w_call>>

\* wallet.optimize_volume(path, base_profit_rate, base_cost_rate,
\*                        available_funds) with the arguments of w_call
optimize_volume_call ==
    /\ w_call.op = "optimize_volume"
    /\ w_result' = optimize_volume(fee_schedules, w_call.path,
                                   w_call.base_profit_rate,
                                   w_call.base_cost_rate,
                                   w_call.available_funds)
    /\ w_trace' = <<"optimize_volume">>
    /\ UNCHANGED <<queueVars, apiVars, graphVars, searchVars, tlVars, balances, fee_schedules,
                   w_call>>

\* wallet.evaluate_opportunity(path, predicted_profit_rate,
\*                             predicted_cost_rate, min_amount) with the
\* arguments of w_call
evaluate_opportunity_call ==
    /\ w_call.op = "evaluate_opportunity"
    /\ \E r \in {evaluate_opportunity(balances, fee_schedules, w_call.path,
                    w_call.predicted_profit_rate, w_call.predicted_cost_rate,
                    w_call.min_amount,
                    get_max_executable_amount(balances, w_call.path))} :
          w_result' = r.result /\ w_trace' = r.trace
    /\ UNCHANGED <<queueVars, apiVars, graphVars, searchVars, tlVars, balances, fee_schedules,
                   w_call>>

WalletNext ==
    \/ set_balance \/ set_fee_schedule
    \/ optimize_volume_call \/ evaluate_opportunity_call

WalletSpec == WalletInit /\ [][WalletNext]_vars

----------------------------------------------------------------------------
(* Claims about the cycle searches                                         *)

\* the number of nodes on the path of a frontier entry
EntryPathLen(e) ==
    IF "node_index" \in DOMAIN e THEN Len(e.path_indices) ELSE Len(e.path)

\* C1: every emitted opportunity is a cycle through the start node: at least
\* two nodes, first and last node the start node, the start node at no
\* interior position, and a net profit above zero.
C1_EmittedAreCycles ==
    \A i \in 1..Len(opportunities) :
        LET o == opportunities[i]
        IN  /\ Len(o.path) >= 2
            /\ o.path[1] = start_node
            /\ o.path[Len(o.path)] = start_node
            /\ \A j \in 2..(Len(o.path) - 1) : o.path[j] # start_node
            /\ o.net_profit > 0

\* C1 witness: a search returned a cycle of three nodes and, in the same
\* graph, the start node has a self-loop.
C1_Witness ==
    /\ pc = "done"
    /\ \E i \in 1..Len(opportunities) : Len(opportunities[i].path) = 3
    /\ \E i \in 1..Len(nodes[start_node].edges) :
          nodes[start_node].edges[i].target = start_node

\* the graph A -> B -> C -> A with weights 0.001 and no other edge,
\* A = (Kraken, USDT), B = (Coinbase, USDT), C = (Coinbase, USDC)
ThreeCycleGraph ==
    /\ Len(edges) = 3
    /\ \A i \in 1..3 :
          /\ edges[i].weight = 10
          /\ <<edges[i].source, edges[i].target>> =
                 << <<KT, CT>>, <<CT, CU>>, <<CU, KT>> >>[i]

\* C2: on the three-node loop with weights 0.001, dijkstra_arbitrage from A
\* with max_depth >= 3 returns exactly one opportunity, the cycle
\* A -> B -> C -> A with total_cost 0.003.
C2_ThreeCycleReported ==
    (/\ ThreeCycleGraph
     /\ algorithm = "dijkstra" /\ start_node = KT /\ max_depth >= 3
     /\ pc = "done")
    => /\ Len(opportunities) = 1
       /\ opportunities[1].path = <<KT, CT, CU, KT>>
       /\ opportunities[1].total_cost = 30

\* C3: with max_depth = d >= 0, no emitted path has more than d + 1 nodes,
\* and every state in the frontier has path length depth + 1 and depth <= d.
C3_DepthBound ==
    max_depth >= 0 =>
        /\ \A i \in 1..Len(opportunities) :
               Len(opportunities[i].path) <= max_depth + 1
        /\ \A i \in 1..Len(frontier) :
               /\ EntryPathLen(frontier[i]) = frontier[i].depth + 1
               /\ frontier[i].depth <= max_depth

\* C3 witness: a state at the depth limit is in the frontier while a cycle
\* of max_depth + 1 nodes has been emitted.
C3_Witness ==
    /\ max_depth >= 2
    /\ \E i \in 1..Len(frontier) : frontier[i].depth = max_depth
    /\ \E i \in 1..Len(opportunities) :
          Len(opportunities[i].path) = max_depth + 1

\* C4: with max_depth <= 0 a search pops the initial state, expands nothing,
\* and returns an empty list (it does not raise).
C4_NoDepthNoResult ==
    (max_depth <= 0 /\ pc # "idle") =>
        /\ pc # "raised"
        /\ opportunities = <<>>
        /\ \A i \in 1..Len(popped) : popped[i].kind = "pruned"
        /\ pc = "done" => (frontier = <<>> /\ Len(popped) = 1)

\* C4 witness: a search with a negative max_depth returned, from a start
\* node that has outgoing edges.
C4_Witness ==
    /\ pc = "done" /\ max_depth < 0
    /\ nodes[start_node].edges # <<>>

\* C5: a search that has stopped has exhausted its frontier and returned.
C5_StopsByReturning ==
    pc \notin {"idle", "loop"} => (pc = "done" /\ frontier = <<>>)

\* The loop itself cannot run forever: every pass pops one state, and the
\* states popped or waiting never outnumber one plus an edge count for each
\* (node, depth) pair with depth <= max_depth.
SearchWorkBounded ==
    /\ Len(popped) + Len(frontier) <= 1 + Len(edges) * Cardinality(visited)
    /\ \A v \in visited : v[1] \in DOMAIN nodes /\ v[2] \in 0..MaxDepth
    /\ Cardinality(visited) <= Len(popped)

\* Every pass of the loop adds one state to those popped, or raises.
SearchLoopProgress ==
    [][pc = "loop" => (Len(popped') = Len(popped) + 1 \/ pc' # "loop")]_vars

\* C6: each (node, depth) pair is processed at most once, a second popped
\* state with the same node and depth is skipped, and no two emitted cycles
\* have the same length.
C6_VisitedOncePerNodeDepth ==
    /\ \A i, j \in 1..Len(popped) :
          (i < j /\ popped[i].node = popped[j].node
                 /\ popped[i].depth = popped[j].depth)
              => popped[j].kind = "skipped"
    /\ \A i \in 1..Len(popped) :
          popped[i].kind # "skipped"
              => <<popped[i].node, popped[i].depth>> \in visited
    /\ \A i, j \in 1..Len(opportunities) :
          i # j => Len(opportunities[i].path) # Len(opportunities[j].path)

\* C6 witness: one state was skipped as already visited, and one node was
\* processed at two different depths.
C6_Witness ==
    /\ \E i \in 1..Len(popped) : popped[i].kind = "skipped"
    /\ \E i, j \in 1..Len(popped) :
          /\ popped[i].node = popped[j].node
          /\ popped[i].depth # popped[j].depth
          /\ popped[i].kind # "skipped" /\ popped[j].kind # "skipped"

----------------------------------------------------------------------------
(* Claims about two_level_search                                           *)

\* The results of the direct single-source search from the node start that
\* two_level_search's selector stands for ('astar', and least cost for every
\* other selector), with the call's max_depth and volatility_factor.
DirectResults(start) ==
    RunSearch(nodes, start, max_depth,
              IF tl_algorithm = "astar" THEN "astar" ELSE "dijkstra",
              volatility_factor, 3,
              SearchStart(IF tl_algorithm = "astar" THEN "astar"
                          ELSE "dijkstra", start)).opportunities

AmongDirect(e, res) ==
    \E i \in 1..Len(res) :
        /\ res[i].path = e.path
        /\ res[i].net_profit = e.net_profit
        /\ res[i].total_cost = e.total_cost

\* C7: every entry of two_level_search's result list, described as start
\* (ex1, c1) -> target (ex2, c2), has a path that starts at (ex1, c1) and
\* contains (ex2, c2), and its (path, profit, cost) is a result of the direct
\* single-source search from (ex1, c1) with the same algorithm, max_depth and
\* volatility_factor; nothing else is in the list.
C7_EntriesAreDirectResults ==
    \A n \in 1..Len(all_opportunities) :
        \E e \in {all_opportunities[n]} :
            /\ e.path[1] = <<e.description[1], e.description[2]>>
            /\ \E i \in 1..Len(e.path) :
                  e.path[i] = <<e.description[3], e.description[4]>>
            /\ <<e.description[1], e.description[2]>> \in DOMAIN nodes
            /\ AmongDirect(e, DirectResults(<<e.description[1],
                                              e.description[2]>>))

\* A call has returned entries, and left out a cycle of a direct search
\* that does not visit the pair's target.
C7_Witness ==
    /\ tl_pc = "done"
    /\ all_opportunities # <<>>
    /\ \E s \in DOMAIN nodes, t \in DOMAIN nodes :
          /\ s[1] # t[1]
          /\ \E r \in {DirectResults(s)} :
                \E i \in 1..Len(r) : \A j \in 1..Len(r[i].path) :
                    r[i].path[j] # t

\* The pairs (start, target) the loops are to search: distinct exchanges,
\* both nodes in the graph.
PairsToSearch ==
    {p \in (DOMAIN nodes) \X (DOMAIN nodes) : p[1][1] # p[2][1]}

PairCovered(p) ==
    /\ p[1] \in tl_searched
    /\ \E r \in {DirectResults(p[1])} :
          \A i \in 1..Len(r) :
              (\E j \in 1..Len(r[i].path) : r[i].path[j] = p[2])
              => \E n \in 1..Len(all_opportunities) :
                    /\ all_opportunities[n].path = r[i].path
                    /\ all_opportunities[n].net_profit = r[i].net_profit
                    /\ all_opportunities[n].total_cost = r[i].total_cost
                    /\ all_opportunities[n].description =
                          <<p[1][1], p[1][2], p[2][1], p[2][2]>>

NoSameExchangeResult ==
    \A n \in 1..Len(all_opportunities) :
        all_opportunities[n].description[1] #
            all_opportunities[n].description[3]

\* C8: once a call of two_level_search is over, every pair of nodes on
\* distinct exchanges (equal or different currencies) has been searched from
\* its start and every cycle of that search through the target is in the
\* list; pairs with an absent node were skipped without error; no entry is
\* for two nodes of one exchange.
C8_EveryPairSearched ==
    tl_pc \notin {"idle", "loop"} =>
        /\ tl_pc = "done"
        /\ \A p \in PairsToSearch : PairCovered(p)
        /\ NoSameExchangeResult

\* What remains of C8 when no search raises: a call that returns has covered
\* every pair.
TwoLevelReturnCoversPairs ==
    tl_pc = "done" =>
        /\ \A p \in PairsToSearch : PairCovered(p)
        /\ NoSameExchangeResult
        /\ tl_pos = Len(LoopTuples(tl_order))

----------------------------------------------------------------------------
(* Claims about WalletManager.optimize_volume                              *)

\* The volumes 0, VolumeStep, 2 * VolumeStep, ... up to funds, and funds.
VolumeStep == 250

AllVolumes(funds) ==
    {k * VolumeStep : k \in 0..(funds \div VolumeStep)} \cup {funds}

DefaultFeesOn(path) ==
    \A i \in 1..Len(path) : path[i][1] \notin DOMAIN fee_schedules

\* The net profit of the call's path and rates at volume v.
CallNetProfit(v) ==
    volume_net_profit(fee_schedules, w_call.path, w_call.base_profit_rate,
                      w_call.base_cost_rate, v)

OptimizeReturned == w_call.op = "optimize_volume" /\ w_trace # <<>>

\* C9: with the default fee schedule on every exchange of a non-empty path
\* and available_funds > 0, the optimal_profit optimize_volume returns is the
\* largest net profit (profit_rate - cost_rate - sum of the fees at v) * v
\* over all volumes v from 0 to available_funds, and some such volume has it.
C9_BreakpointsLoseNothing ==
    (/\ OptimizeReturned
     /\ w_call.path # <<>>
     /\ w_call.available_funds > 0
     /\ DefaultFeesOn(w_call.path))
    => /\ \A v \in AllVolumes(w_call.available_funds) :
              CallNetProfit(v) <= w_result[2]
       /\ \E v \in AllVolumes(w_call.available_funds) :
              CallNetProfit(v) = w_result[2]

\* A call with default fees and funds beyond the last tier returned a
\* positive profit although the rate of the first tier is negative.
C9_Witness ==
    /\ OptimizeReturned
    /\ Len(w_call.path) >= 2
    /\ DefaultFeesOn(w_call.path)
    /\ w_call.available_funds > 100000
    /\ w_result[2] > 0
    /\ CallNetProfit(VolumeStep) < 0

\* The candidate breakpoints of the claim.
Breakpoints(funds) ==
    {Min(1000, funds), Min(10000, funds), Min(100000, funds), funds}

ScenarioCallReturned ==
    /\ OptimizeReturned
    /\ w_call.base_profit_rate = 10
    /\ w_call.base_cost_rate = 5
    /\ w_call.available_funds = 50000
    /\ DefaultFeesOn(w_call.path)

\* profit_rate - cost_rate exceeds the fees summed over the path at the tier
\* of the returned volume.
RateExceedsFees ==
    w_call.base_profit_rate - w_call.base_cost_rate
        > total_fee_rate(fee_schedules, w_call.path, w_result[1])

\* C11 as stated: in the scenario, for every path, optimal_volume is one of
\* 1000, 10000, 50000, and optimal_profit > 0 exactly when profit_rate -
\* cost_rate exceeds the summed fee rate at the tier of that volume.
C11_ScenarioVolume ==
    ScenarioCallReturned =>
        /\ w_result[1] \in {1000, 10000, 50000}
        /\ (w_result[2] > 0) <=> RateExceedsFees

\* C11 amended: in the scenario, for every non-empty path, optimal_volume is
\* one of 0, 1000, 10000, 50000, it is 0 exactly when optimal_profit is 0, and
\* optimal_profit > 0 exactly when profit_rate - cost_rate exceeds the summed
\* fee rate at the tier of that volume.
C11_ScenarioVolumeOrZero ==
    (ScenarioCallReturned /\ w_call.path # <<>>) =>
        /\ w_result[1] \in {0, 1000, 10000, 50000}
        /\ (w_result[1] = 0) <=> (w_result[2] = 0)
        /\ (w_result[2] > 0) <=> RateExceedsFees

\* The scenario call returned (0, 0) for a path of three nodes, whose fees
\* exceed the rate at every breakpoint.
C11_Witness ==
    /\ ScenarioCallReturned
    /\ Len(w_call.path) = 3
    /\ w_result = <<0, 0>>

----------------------------------------------------------------------------
(* Claims about WalletManager.evaluate_opportunity                         *)

EvaluateReturned == w_call.op = "evaluate_opportunity" /\ w_trace # <<>>

\* The least balance over the path's nodes, an unset balance counting as 0
\* and an empty path giving 0.
LeastBalance ==
    IF w_call.path = <<>> THEN 0
    ELSE CHOOSE m \in {0} \cup {balances[k] : k \in DOMAIN balances} :
           /\ \E i \in 1..Len(w_call.path) :
                 m = (IF w_call.path[i] \in DOMAIN balances
                      THEN balances[w_call.path[i]] ELSE 0)
           /\ \A i \in 1..Len(w_call.path) :
                 m <= (IF w_call.path[i] \in DOMAIN balances
                       THEN balances[w_call.path[i]] ELSE 0)

\* What evaluate_opportunity is to have returned, by the least balance.
EvaluateResultRight ==
    EvaluateReturned =>
        IF LeastBalance < w_call.min_amount
        THEN /\ w_result.executable = FALSE
             /\ w_result.optimal_volume = 0
             /\ w_result.optimal_profit = 0
             /\ w_result.reason = "Insufficient funds"
             /\ \A i \in 1..Len(w_trace) : w_trace[i] # "optimize_volume"
        ELSE /\ \E i \in 1..Len(w_trace) : w_trace[i] = "optimize_volume"
             /\ <<w_result.optimal_volume, w_result.optimal_profit>> =
                   optimize_volume(fee_schedules, w_call.path,
                                   w_call.predicted_profit_rate,
                                   w_call.predicted_cost_rate, LeastBalance)
             /\ w_result.executable = (w_result.optimal_profit > 0)
             /\ w_result.max_amount = LeastBalance
             /\ w_result.optimal_volume <= w_result.max_amount

\* C12: evaluate_opportunity returns the 'Insufficient funds' result, without
\* running the optimizer, when the least balance on the path is below
\* min_amount; otherwise it runs optimize_volume with that balance as the
\* funds and returns executable = (optimal_profit > 0) with optimal_volume <=
\* max_amount. Either way it leaves the balances as they were.
C12_EvaluateOpportunity ==
    /\ []EvaluateResultRight
    /\ [][(w_call.op = "evaluate_opportunity" /\ w_trace' # <<>>)
            => balances' = balances]_vars

\* A call was refused for a path one of whose balances is unset, the other
\* being well above min_amount.
C12_Witness ==
    /\ EvaluateReturned
    /\ w_call.path = <<KT, CT>>
    /\ KT \in DOMAIN balances /\ CT \notin DOMAIN balances
    /\ balances[KT] = 5000
    /\ w_call.min_amount = 100
    /\ w_result.reason = "Insufficient funds"

----------------------------------------------------------------------------
(* The Kraken/Coinbase scenario                                            *)

\* (Kraken, USDT) at 1.000, (Coinbase, USDT) at 1.010 and the one edge
\* Kraken -> Coinbase with fee 0.0005 and volatility_cost 0.0001.
KrakenCoinbaseGraph ==
    /\ nodes[KT].price = 10000
    /\ nodes[CT].price = 10100
    /\ Len(edges) = 1
    /\ edges[1].source = KT /\ edges[1].target = CT
    /\ edges[1].fee = 5 /\ edges[1].volatility_cost = 1
    /\ edges[1].weight = 6

\* The node of a frontier entry.
EntryNode(e) ==
    IF "node_index" \in DOMAIN e THEN index_to_node[e.node_index + 1]
    ELSE e.node

\* C13: in the Kraken/Coinbase scenario a search from (Kraken, USDT) with
\* max_depth >= 1 has, after expanding the start, the state for (Coinbase,
\* USDT) at depth 1 in its frontier.
C13_EdgeRetained ==
    (/\ KrakenCoinbaseGraph
     /\ start_node = KT /\ max_depth >= 1
     /\ pc = "loop" /\ Len(popped) = 1)
    => \E i \in 1..Len(frontier) :
          EntryNode(frontier[i]) = CT /\ frontier[i].depth = 1

----------------------------------------------------------------------------
(* ArbitrageAgent.evaluate_opportunity                                     *)
(* Amounts are whole; price_difference, total_cost and net_profit are in   *)
(* units of 1/Scale.                                                       *)

\* for edge in current.edges: if edge.target == next_node: the weight of the
\* first such edge times the amount, 0 when there is none.
RECURSIVE FirstEdgeCost(_, _, _)
FirstEdgeCost(es, next_node, amount) ==
    IF es = <<>> THEN 0
    ELSE IF Head(es).target = next_node THEN Head(es).weight * amount
    ELSE FirstEdgeCost(Tail(es), next_node, amount)

\* total_cost summed over the hops path[i] -> path[i + 1], from hop i on.
RECURSIVE PathCost(_, _, _, _)
PathCost(ns, path, amount, i) ==
    IF i >= Len(path) THEN 0
    ELSE FirstEdgeCost(ns[path[i]].edges, path[i + 1], amount)
         + PathCost(ns, path, amount, i + 1)

\* price_diff = (start_price - end_price) * amount
PriceDifference(start_price, end_price, amount) ==
    (start_price - end_price) * amount

\* The dictionary returned for a path of two or more nodes; roi is kept as
\* the fraction <<numerator, denominator>> of its division.
Evaluation(start_price, end_price, amount, price_diff, total_cost) ==
    [amount |-> amount, start_price |-> start_price, end_price |-> end_price,
     price_difference |-> price_diff, total_cost |-> total_cost,
     net_profit |-> price_diff - total_cost,
     roi |-> IF start_price * amount > 0
             THEN <<(price_diff - total_cost) * 100, start_price * amount>>
             ELSE <<0, 1>>,
     profitable |-> price_diff - total_cost > 0]

\* ArbitrageAgent.evaluate_opportunity(path, amount)
agent_evaluate_opportunity(ns, path, amount) ==
    IF Len(path) < 2 THEN [error |-> "Path too short"]
    ELSE Evaluation(ns[path[1]].price, ns[path[Len(path)]].price, amount,
                    PriceDifference(ns[path[1]].price,
                                    ns[path[Len(path)]].price, amount),
                    PathCost(ns, path, amount, 1))

\* The longest path handed to the agent.
MaxPathLen == 3

AgentPaths == UNION {[1..n -> {KT, CT, CU}] : n \in 1..MaxPathLen}
Amounts == {1, 100}

\* A constructed graph, and the arguments of the call to be made on the
\* agent that holds it.
AgentInit ==
    /\ \E pm \in [{KT, CT, CU} -> PriceSet],
          S \in EdgeChoices(TwoLevelMaxEdges) : GraphIs(pm, S)
    /\ NoSearch /\ NoTwoLevel /\ NoWallet /\ NoQueue
    /\ \E path \in AgentPaths, amount \in Amounts :
          last_call = [op |-> "evaluate_opportunity", path |-> path,
                       amount |-> amount]
    /\ last_result = <<>>

\* agent.evaluate_opportunity(path, amount) with the arguments of last_call
agent_evaluate_call ==
    /\ last_call.op = "evaluate_opportunity"
    /\ last_result = <<>>
    /\ last_result' = agent_evaluate_opportunity(nodes, last_call.path,
                                                 last_call.amount)
    /\ UNCHANGED <<queueVars, graphVars, searchVars, tlVars, walletVars, last_call>>

AgentNext == agent_evaluate_call

AgentSpec == AgentInit /\ [][AgentNext]_vars

\* C14: in the Kraken/Coinbase scenario evaluate_opportunity([(Kraken, USDT),
\* (Coinbase, USDT)], amount = 100) yields net_profit 0.94 and reports the
\* trade as profitable.
C14_ScenarioProfit ==
    (/\ KrakenCoinbaseGraph
     /\ last_call.op = "evaluate_opportunity"
     /\ last_call.path = <<KT, CT>> /\ last_call.amount = 100
     /\ DOMAIN last_result # {})
    => /\ last_result.net_profit = 9400
       /\ last_result.profitable

----------------------------------------------------------------------------
(* Building and updating a graph: add_node, add_edge, update_prices and    *)
(* Edge.update_volatility_cost                                             *)

\* update_prices with "key in self.nodes" left out: a key that is not
\* registered gets a node.
update_prices_creating(g, price_updates) ==
    [g EXCEPT !.nodes =
        [k \in DOMAIN g.nodes \cup DOMAIN price_updates |->
            IF k \in DOMAIN price_updates
            THEN IF k \in DOMAIN g.nodes
                 THEN [g.nodes[k] EXCEPT !.price = price_updates[k]]
                 ELSE ExchangeNode(price_updates[k])
            ELSE g.nodes[k]]]

\* ArbitrageGraph.update_prices: for key, price in price_updates.items():
\* if key in self.nodes: self.nodes[key].price = price
update_prices(g, price_updates) ==
    [g EXCEPT !.nodes =
        [k \in DOMAIN g.nodes |->
            IF k \in DOMAIN price_updates
            THEN [g.nodes[k] EXCEPT !.price = price_updates[k]]
            ELSE g.nodes[k]]]

\* The edge object graph.edges[i] is also an element of its source node's
\* edges: the position it has there.
OutIndex(es, i) ==
    Cardinality({j \in 1..i : es[j].source = es[i].source})

\* update_volatility_cost that forgets to recalculate the weight.
SetVolatilityCostOnly(edge, new_cost) ==
    [edge EXCEPT !.volatility_cost = new_cost]

\* Edge.update_volatility_cost(new_cost)
update_volatility_cost(edge, new_cost) ==
    [edge EXCEPT !.volatility_cost = new_cost, !.weight = edge.fee + new_cost]

\* graph.edges[i].update_volatility_cost(new_cost): the one edge object is
\* seen changed in graph.edges and in its source node's edges.
UpdateEdge(g, i, new_cost) ==
    [nodes |-> [g.nodes EXCEPT ![g.edges[i].source].edges[OutIndex(g.edges, i)]
                                   = update_volatility_cost(@, new_cost)],
     edges |-> [g.edges EXCEPT ![i] = update_volatility_cost(@, new_cost)]]

\* The graph held in the variables.
Graph == [nodes |-> nodes, edges |-> edges]

SetGraph(g) == nodes' = g.nodes /\ edges' = g.edges

\* The most edges added to a graph, and the inputs of the graph calls.
MaxGraphEdges == 2

NodeKeys == {KT, CT}
EdgeKeys == {KT, CT, CU}
EdgeFees == {10}
VolatilityCosts == {0, 1}
NewVolatilityCosts == {0, 3}
PriceUpdates == UNION {[K -> PriceSet] : K \in SUBSET {KT, CU}}

GraphInit ==
    /\ nodes = EmptyGraph.nodes /\ edges = EmptyGraph.edges
    /\ NoSearch /\ NoTwoLevel /\ NoWallet /\ NoCall /\ NoQueue

\* graph.add_node(exchange, stablecoin, price)
graph_add_node ==
    /\ \E key \in NodeKeys, price \in PriceSet :
          /\ SetGraph(add_node(Graph, key, price))
          /\ last_call' = [op |-> "add_node", key |-> key, price |-> price]
          /\ last_result' = [raised |-> FALSE, value |-> key]
    /\ UNCHANGED <<queueVars, searchVars, tlVars, walletVars>>

\* graph.add_edge(source..., target..., fee, volatility_cost, 0.0)
graph_add_edge ==
    /\ Len(edges) < MaxGraphEdges
    /\ \E source_key \in EdgeKeys, target_key \in EdgeKeys, fee \in EdgeFees,
          volatility_cost \in VolatilityCosts :
          /\ \E r \in {add_edge(Graph, source_key, target_key, fee,
                                volatility_cost, 0)} :
                /\ SetGraph(r.graph)
                /\ last_result' =
                      [raised |-> r.raised,
                       value |-> IF r.raised THEN <<>>
                                 ELSE r.graph.edges[Len(r.graph.edges)]]
          /\ last_call' = [op |-> "add_edge", source_key |-> source_key,
                           target_key |-> target_key, fee |-> fee,
                           volatility_cost |-> volatility_cost]
    /\ UNCHANGED <<queueVars, searchVars, tlVars, walletVars>>

\* graph.update_prices(price_updates)
graph_update_prices ==
    /\ \E price_updates \in PriceUpdates :
          /\ SetGraph(update_prices(Graph, price_updates))
          /\ last_call' = [op |-> "update_prices",
                           price_updates |-> price_updates]
    /\ last_result' = [raised |-> FALSE, value |-> <<>>]
    /\ UNCHANGED <<queueVars, searchVars, tlVars, walletVars>>

\* graph.edges[i].update_volatility_cost(new_cost)
edge_update_volatility_cost ==
    /\ \E i \in 1..Len(edges), new_cost \in NewVolatilityCosts :
          /\ SetGraph(UpdateEdge(Graph, i, new_cost))
          /\ last_call' = [op |-> "update_volatility_cost", edge |-> i,
                           new_cost |-> new_cost]
    /\ last_result' = [raised |-> FALSE, value |-> <<>>]
    /\ UNCHANGED <<queueVars, searchVars, tlVars, walletVars>>

GraphNext ==
    \/ graph_add_node \/ graph_add_edge
    \/ graph_update_prices \/ edge_update_volatility_cost

GraphSpec == GraphInit /\ [][GraphNext]_vars

----------------------------------------------------------------------------
(* Claims about the graph operations                                       *)

\* The step is a call of the graph operation op.
GraphCall(op) == last_call'.op = op

\* Every node other than key is as before.
OthersUnchanged(key) ==
    \A k \in DOMAIN nodes : k # key => (k \in DOMAIN nodes' /\ nodes'[k] = nodes[k])

\* C15: the graph holds at most one node per key, and add_node on a key that
\* exists does not fail, leaves the node count, that node's outgoing edges,
\* every other node and the edge list unchanged, and sets the node's price to
\* the new value.
C15_AddNodeTwice ==
    /\ [](Cardinality(DOMAIN nodes) <= Cardinality(NodeKeys))
    /\ [][(GraphCall("add_node") /\ last_call'.key \in DOMAIN nodes)
            => /\ ~last_result'.raised
               /\ DOMAIN nodes' = DOMAIN nodes
               /\ nodes'[last_call'.key].edges = nodes[last_call'.key].edges
               /\ nodes'[last_call'.key].price = last_call'.price
               /\ OthersUnchanged(last_call'.key)
               /\ edges' = edges]_vars

\* add_node was called on a node that has outgoing edges, beside another
\* node.
C15_Witness ==
    /\ last_call.op = "add_node"
    /\ nodes[last_call.key].edges # <<>>
    /\ nodes[last_call.key].price = last_call.price
    /\ Cardinality(DOMAIN nodes) = 2

\* C16: add_edge raises when its source or target key is not registered and
\* then leaves the graph as it was; with both registered it appends exactly
\* one edge to the edge list and to the source node's outgoing edges.
C16_AddEdge ==
    [][GraphCall("add_edge")
         => IF \/ last_call'.source_key \notin DOMAIN nodes
               \/ last_call'.target_key \notin DOMAIN nodes
            THEN /\ last_result'.raised
                 /\ nodes' = nodes
                 /\ edges' = edges
            ELSE /\ ~last_result'.raised
                 /\ edges' = Append(edges, last_result'.value)
                 /\ last_result'.value.source = last_call'.source_key
                 /\ last_result'.value.target = last_call'.target_key
                 /\ last_result'.value.fee = last_call'.fee
                 /\ DOMAIN nodes' = DOMAIN nodes
                 /\ nodes'[last_call'.source_key].edges =
                       Append(nodes[last_call'.source_key].edges,
                              last_result'.value)
                 /\ nodes'[last_call'.source_key].price =
                       nodes[last_call'.source_key].price
                 /\ OthersUnchanged(last_call'.source_key)]_vars

\* add_edge raised for an unregistered target on a graph that has an edge.
C16_Witness ==
    /\ last_call.op = "add_edge"
    /\ last_result.raised
    /\ last_call.source_key \in DOMAIN nodes
    /\ last_call.target_key \notin DOMAIN nodes
    /\ Len(edges) >= 1

\* Every edge object of the graph, in the edge list and in the nodes.
AllEdges ==
    {edges[i] : i \in 1..Len(edges)}
    \cup UNION {{nodes[k].edges[i] : i \in 1..Len(nodes[k].edges)} :
                   k \in DOMAIN nodes}

\* C17: for every edge weight = fee + volatility_cost, also after
\* update_volatility_cost, which changes nothing of the edge but
\* volatility_cost and weight, and no other edge.
C17_WeightIsFeePlusVolatility ==
    /\ [](\A e \in AllEdges : e.weight = e.fee + e.volatility_cost)
    /\ [][GraphCall("update_volatility_cost")
            => /\ Len(edges') = Len(edges)
               /\ \A i \in 1..Len(edges) :
                     IF i = last_call'.edge
                     THEN /\ edges'[i].volatility_cost = last_call'.new_cost
                          /\ edges'[i].fee = edges[i].fee
                          /\ edges'[i].transfer_time = edges[i].transfer_time
                          /\ edges'[i].source = edges[i].source
                          /\ edges'[i].target = edges[i].target
                     ELSE edges'[i] = edges[i]]_vars

\* update_volatility_cost has changed the cost of the second of two edges
\* out of one node.
C17_Witness ==
    /\ last_call.op = "update_volatility_cost"
    /\ last_call.edge = 2
    /\ edges[1].source = edges[2].source
    /\ edges[2].volatility_cost = 3 /\ edges[2].weight = 13
    /\ edges[1].volatility_cost # 3

\* C18: update_prices sets the price of every node whose key is in the map,
\* ignores keys that are not in the graph, does not fail, creates no node and
\* leaves the node set, all edges and the other prices unchanged.
C18_UpdatePrices ==
    [][GraphCall("update_prices")
         => /\ ~last_result'.raised
            /\ DOMAIN nodes' = DOMAIN nodes
            /\ edges' = edges
            /\ \A k \in DOMAIN nodes :
                  /\ nodes'[k].edges = nodes[k].edges
                  /\ nodes'[k].price =
                        IF k \in DOMAIN last_call'.price_updates
                        THEN last_call'.price_updates[k]
                        ELSE nodes[k].price]_vars

\* update_prices was called with a registered and an unregistered key on a
\* graph with a node the map does not name.
C18_Witness ==
    /\ last_call.op = "update_prices"
    /\ DOMAIN last_call.price_updates = {KT, CU}
    /\ DOMAIN nodes = {KT, CT}
    /\ nodes[KT].price = last_call.price_updates[KT]
    /\ nodes[KT].price # nodes[CT].price
    /\ Len(edges) >= 1

----------------------------------------------------------------------------
(* The priority queues on their own                                        *)

\* The queue object: its heap list and its index_to_node list.
Queue == [heap |-> frontier, index_to_node |-> index_to_node]

\* The most entries a queue holds at a time.
MaxQueueSize == 3

\* ExchangeNode objects that belong to no graph: two of them are equal (one
\* key) and differ in price.
KrakenNode == <<"Kraken", "USDT", 10000>>
KrakenNodeRepriced == <<"Kraken", "USDT", 10100>>
CoinbaseNode == <<"Coinbase", "USDT", 10000>>

\* Arguments of OptimizedPriorityQueue.push: (priority, node, *extra_data).
PushCalls ==
    {<<1, KrakenNode>>, <<1, KrakenNodeRepriced>>, <<2, CoinbaseNode>>,
     <<1, CoinbaseNode>>, <<1, CoinbaseNode, 7>>, <<2, KrakenNode, 7>>,
     <<2, CoinbaseNode, 7, <<KrakenNode, CoinbaseNode>>, 1>>,
     <<2, CoinbaseNode, 7, <<CoinbaseNode, CoinbaseNode>>, 1>>}

\* Arguments of OptimizedPriorityQueueWithPath.push.
PathPushCalls ==
    {[f_cost |-> 1, total_cost |-> 0, node |-> KrakenNode,
      path |-> <<KrakenNode>>, depth |-> 0],
     [f_cost |-> 1, total_cost |-> 0, node |-> KrakenNodeRepriced,
      path |-> <<KrakenNodeRepriced>>, depth |-> 0],
     [f_cost |-> 2, total_cost |-> 1, node |-> CoinbaseNode,
      path |-> <<KrakenNode, CoinbaseNode>>, depth |-> 1],
     [f_cost |-> 1, total_cost |-> 1, node |-> CoinbaseNode,
      path |-> <<KrakenNodeRepriced, CoinbaseNode>>, depth |-> 1],
     [f_cost |-> 1, total_cost |-> 1, node |-> KrakenNode,
      path |-> <<KrakenNode, CoinbaseNode, KrakenNode>>, depth |-> 2]}

QueueClasses == {"OptimizedPriorityQueue", "OptimizedPriorityQueueWithPath"}

\* A value pop returned, or the arguments of a push, against the arguments
\* of a push: equal, with nodes compared as ExchangeNode.__eq__ does.
SameAsPushed(item, pushed) ==
    IF q_class = "OptimizedPriorityQueueWithPath"
    THEN /\ item.f_cost = pushed.f_cost
         /\ item.total_cost = pushed.total_cost
         /\ NodeEq(item.node, pushed.node)
         /\ Len(item.path) = Len(pushed.path)
         /\ \A i \in 1..Len(pushed.path) : NodeEq(item.path[i], pushed.path[i])
         /\ item.depth = pushed.depth
    ELSE /\ Len(item) = Len(pushed)
         /\ item[1] = pushed[1]
         /\ NodeEq(item[2], pushed[2])
         /\ SubSeq(item, 3, Len(item)) = SubSeq(pushed, 3, Len(pushed))

\* pending without its first entry that item matches.
WithoutPushed(item) ==
    IF \E i \in 1..Len(pending) : SameAsPushed(item, pending[i])
    THEN LET i == CHOOSE j \in 1..Len(pending) :
                     /\ SameAsPushed(item, pending[j])
                     /\ \A k \in 1..(j - 1) : ~SameAsPushed(item, pending[k])
         IN  SubSeq(pending, 1, i - 1) \o SubSeq(pending, i + 1, Len(pending))
    ELSE pending

\* The outcome r of a queue operation becomes the state of the queue and
\* the result of the call.
SetQueue(r) ==
    /\ frontier' = r.q.heap
    /\ index_to_node' = r.q.index_to_node
    /\ last_result' = [raised |-> r.raised, value |-> r.item]

QueueFrame ==
    UNCHANGED <<graphVars, start_node, max_depth, algorithm,
                volatility_factor, weight, visited, opportunities, pc, popped,
                tlVars, walletVars, q_class>>

QueueInit ==
    /\ nodes = EmptyGraph.nodes /\ edges = EmptyGraph.edges
    /\ NoSearch /\ NoTwoLevel /\ NoWallet /\ NoCall
    /\ q_class \in QueueClasses
    /\ pending = <<>>
    /\ lost = FALSE

\* queue.push(priority, node, *extra_data)
queue_push_call ==
    /\ q_class = "OptimizedPriorityQueue"
    /\ Len(frontier) < MaxQueueSize
    /\ \E c \in PushCalls :
          /\ SetQueue(queue_push(Queue, c[1], c[2], SubSeq(c, 3, Len(c))))
          /\ last_call' = [op |-> "push", args |-> c]
          /\ pending' = Append(pending, c)
    /\ lost' = lost
    /\ QueueFrame

\* queue.pop(); when heappop raises TypeError the least entry has left the
\* heap and is returned to nobody.
queue_pop_call ==
    /\ q_class = "OptimizedPriorityQueue"
    /\ \E r \in {queue_pop(Queue)} :
          /\ SetQueue(r)
          /\ pending' =
                IF ~r.raised THEN WithoutPushed(r.item)
                ELSE IF frontier = <<>> THEN pending
                ELSE WithoutPushed(QueueItem(index_to_node, frontier[1]))
          /\ lost' = (lost \/ (r.raised /\ frontier # <<>>))
    /\ last_call' = [op |-> "pop"]
    /\ QueueFrame

\* queue.peek()
queue_peek_call ==
    /\ q_class = "OptimizedPriorityQueue"
    /\ SetQueue(queue_peek(Queue))
    /\ last_call' = [op |-> "peek"]
    /\ pending' = pending
    /\ lost' = lost
    /\ QueueFrame

\* queue.clear()
queue_clear_call ==
    /\ q_class = "OptimizedPriorityQueue"
    /\ SetQueue(queue_clear(Queue))
    /\ last_call' = [op |-> "clear"]
    /\ pending' = <<>>
    /\ lost' = FALSE
    /\ QueueFrame

\* queue.push(f_cost, total_cost, node, path, depth) on the queue with paths
path_queue_push_call ==
    /\ q_class = "OptimizedPriorityQueueWithPath"
    /\ Len(frontier) < MaxQueueSize
    /\ \E c \in PathPushCalls :
          /\ SetQueue(OptimizedPush(Queue, c.f_cost, c.total_cost, c.node,
                                    c.path, c.depth))
          /\ last_call' = [op |-> "push", args |-> c]
          /\ pending' = Append(pending, c)
    /\ lost' = lost
    /\ QueueFrame

\* queue.pop() on the queue with paths
path_queue_pop_call ==
    /\ q_class = "OptimizedPriorityQueueWithPath"
    /\ \E r \in {path_queue_pop(Queue)} :
          /\ SetQueue(r)
          /\ pending' = IF r.raised THEN pending ELSE WithoutPushed(r.item)
    /\ lost' = lost
    /\ last_call' = [op |-> "pop"]
    /\ QueueFrame

QueueNext ==
    \/ queue_push_call
    \/ queue_pop_call
    \/ queue_peek_call
    \/ queue_clear_call
    \/ path_queue_push_call
    \/ path_queue_pop_call

QueueSpec == QueueInit /\ [][QueueNext]_vars

----------------------------------------------------------------------------
(* Claims about the priority queues                                        *)

\* The priority of a heap entry and of a value pop returned.
EntryPriority(e) ==
    IF q_class = "OptimizedPriorityQueueWithPath" THEN e.f_cost
    ELSE e.priority

ItemPriority(item) ==
    IF q_class = "OptimizedPriorityQueueWithPath" THEN item.f_cost
    ELSE item[1]

\* How many times each entry occurs in a heap list.
Occurrences(heap) ==
    [e \in {heap[i] : i \in 1..Len(heap)} |->
        Cardinality({i \in 1..Len(heap) : heap[i] = e})]

\* The list s without its i-th element.
RemoveAt(s, i) == SubSeq(s, 1, i - 1) \o SubSeq(s, i + 1, Len(s))

\* C19: the queue holds as many entries as were pushed and not yet popped;
\* pop on a non-empty queue (of either class) removes exactly one entry,
\* whose priority is <= that of every entry left, and returns what a push
\* not yet popped was given: the same priority, node and extra data, and for
\* the queue with paths the same f_cost, total cost, path node by node and
\* depth (nodes are the same as ExchangeNode.__eq__ has it).
C19_PopReturnsLeastAsPushed ==
    /\ [](Len(frontier) = Len(pending))
    /\ [][(last_call'.op = "pop" /\ frontier # <<>>)
            => /\ ~last_result'.raised
               /\ \E k \in 1..Len(frontier) :
                     Occurrences(frontier') = Occurrences(RemoveAt(frontier, k))
               /\ \A j \in 1..Len(frontier') :
                     ItemPriority(last_result'.value)
                        <= EntryPriority(frontier'[j])
               /\ \E i \in 1..Len(pending) :
                     /\ SameAsPushed(last_result'.value, pending[i])
                     /\ pending' = RemoveAt(pending, i)]_vars

\* C20: peek changes nothing in the queue and does not fail; on a non-empty
\* queue it returns the (priority, node) of what the next pop returns,
\* whether or not that entry was pushed with extra data, and None on an
\* empty queue.
C20_PeekShowsNextPop ==
    [][last_call'.op = "peek"
         => /\ frontier' = frontier
            /\ index_to_node' = index_to_node
            /\ ~last_result'.raised
            /\ last_result'.value =
                  IF frontier = <<>> THEN None
                  ELSE SubSeq(queue_pop(Queue).item, 1, 2)]_vars

\* The node of a value pop returned.
ItemNode(item) ==
    IF q_class = "OptimizedPriorityQueueWithPath" THEN item.node
    ELSE item[2]

\* C21: the heap is ordered by the numeric priority, ties broken by the
\* index the node got at its first insertion, and no comparison involves
\* node objects or lists of nodes: no push and no pop on a non-empty queue
\* raises, and among the entries of the priority pop returns, the node of the
\* returned one has the smallest index.
C21_OrderByPriorityThenIndex ==
    [][/\ last_call'.op = "push" => ~last_result'.raised
       /\ (last_call'.op = "pop" /\ frontier # <<>>)
            => /\ ~last_result'.raised
               /\ \A j \in 1..Len(frontier') :
                     EntryPriority(frontier'[j])
                           = ItemPriority(last_result'.value)
                        => IndexOf(index_to_node,
                                   ItemNode(last_result'.value))
                              <= frontier'[j].node_index]_vars

\* C22: pop on an empty queue (fresh, drained or cleared) raises IndexError
\* and leaves the queue as it was; empty() is true exactly when as many pops
\* have succeeded as pushes were made since the queue was created or last
\* cleared, that is when no pushed entry is still held and none was dropped.
C22_EmptyPopAndEmptiness ==
    /\ [](queue_empty(Queue) <=> (pending = <<>> /\ ~lost))
    /\ [][(last_call'.op = "pop" /\ frontier = <<>>)
            => /\ last_result' = [raised |-> TRUE, value |-> <<"IndexError">>]
               /\ frontier' = frontier
               /\ index_to_node' = index_to_node]_vars

----------------------------------------------------------------------------
(* Further claims about the searches                                       *)

\* No entry of the list has a smaller net profit than the entry after it.
NonIncreasing(s) ==
    \A i \in 1..(Len(s) - 1) : s[i].net_profit >= s[i + 1].net_profit

Successors(S) ==
    {edges[i].target : i \in {j \in 1..Len(edges) : edges[j].source \in S}}

RECURSIVE Closure(_)
Closure(S) == IF Successors(S) \subseteq S THEN S
              ELSE Closure(S \cup Successors(S))

ReachFrom(start) == Closure(Successors({start}))

\* C24: a search from a start node that no walk leads back to ends by
\* returning the empty list, and two_level_search on a graph without edges
\* ends by returning the empty list; neither raises.
C24_NoCycleEmptyList ==
    /\ (pc \in {"done", "raised"} /\ start_node \notin ReachFrom(start_node))
          => (pc = "done" /\ opportunities = <<>>)
    /\ (tl_pc \in {"done", "raised"} /\ edges = <<>>)
          => (tl_pc = "done" /\ all_opportunities = <<>>)

\* Every single-source search two_level_search makes for its selector ends
\* as the search it makes for the selector 'dijkstra'.
SameAsDijkstra ==
    \A s \in DOMAIN nodes :
       SingleSource(nodes, tl_algorithm, s, max_depth, volatility_factor)
          = SingleSource(nodes, "dijkstra", s, max_depth, volatility_factor)

\* C25: called with a selector other than 'astar', two_level_search (and
\* find_arbitrage_paths, which dispatches the same way) raises no error and
\* returns what it returns for the selector 'dijkstra'.
C25_FallsBackToDijkstra ==
    tl_algorithm \notin {"astar", "None"}
       => tl_pc # "raised" /\ SameAsDijkstra

\* Every edge weight is >= 0 and every price is > 0.
NonNegativeGraph ==
    /\ \A i \in 1..Len(edges) : edges[i].weight >= 0
    /\ \A k \in DOMAIN nodes : nodes[k].price > 0

\* C26: on a graph whose edge weights are all >= 0 and whose prices are all
\* > 0, a cycle search (each of the four variants, any start node, any
\* max_depth) pops no state that is back at the start node and ends by
\* returning the empty list.
C26_NoCycleWithoutRebate ==
    NonNegativeGraph
       => /\ \A i \in 1..Len(popped) : popped[i].kind # "cycle"
          /\ pc \in {"done", "raised"}
                => (pc = "done" /\ opportunities = <<>>)

\* The edges u -> v of the graph that pass the one-hop filter.
AdmissibleEdges(u, v) ==
    {e \in {nodes[u].edges[i] : i \in 1..Len(nodes[u].edges)} :
        e.target = v /\ nodes[u].price - nodes[v].price > e.weight}

\* The sums of weights over the ways to walk path from its i-th node on by
\* edges that pass the filter; empty when some hop has no such edge.
RECURSIVE WalkCosts(_, _)
WalkCosts(path, i) ==
    IF i >= Len(path) THEN {0}
    ELSE {e.weight + c : e \in AdmissibleEdges(path[i], path[i + 1]),
                         c \in WalkCosts(path, i + 1)}

\* The states in the frontier, as (f_cost, total_cost, node, path, depth).
FrontierStates ==
    {IF algorithm = "astar_optimized"
     THEN NodeEntry(index_to_node, frontier[i]) ELSE frontier[i] :
        i \in 1..Len(frontier)}

C28_HeapqNeverRaises ==
    algorithm # "astar_optimized" => pc # "raised"

----------------------------------------------------------------------------
(* find_shortest_paths, the single-target search                           *)

\* for edge in current.edges: push the neighbor, with no filter.  The
\* entries are (total_cost, node, path, depth), as those of dijkstra.
RECURSIVE ExpandAll(_, _, _)
ExpandAllNext(item, es, r) ==
    IF r.raised THEN [q |-> r.q, raised |-> TRUE]
    ELSE ExpandAll(item, es, r.q)

ExpandAll(item, es, q) ==
    IF es = <<>> THEN [q |-> q, raised |-> FALSE]
    ELSE ExpandAllNext(item, Tail(es),
                       Push("dijkstra", q,
                            item.total_cost + Head(es).weight,
                            item.total_cost + Head(es).weight,
                            Head(es).target,
                            Append(item.path, Head(es).target),
                            item.depth + 1))

\* return (path, total_cost)
TargetFound(st, item, q) ==
    [st EXCEPT !.q = q, !.pc = "done",
               !.popped = Append(@, PoppedRecord(item, "target"))]

\* The loop body of find_shortest_paths after the pop.
ShortestBody(ns, target, depth_limit, st, item, q) ==
    IF NodeEq(item.node, target) /\ Len(item.path) > 1
    THEN TargetFound(st, item, q)
    ELSE IF <<item.node, item.depth>> \in st.visited
    THEN [st EXCEPT !.q = q,
                    !.popped = Append(@, PoppedRecord(item, "skipped"))]
    ELSE IF item.depth >= depth_limit
    THEN [st EXCEPT !.q = q,
                    !.visited = @ \cup {<<item.node, item.depth>>},
                    !.popped = Append(@, PoppedRecord(item, "pruned"))]
    ELSE AfterExpand(st, item, ExpandAll(item, ns[item.node].edges, q))

ShortestAfterPop(ns, target, depth_limit, st, p) ==
    IF p.raised THEN [st EXCEPT !.pc = "raised"]
    ELSE ShortestBody(ns, target, depth_limit, st, p.item, p.q)

\* What the call has returned or raised once st.pc is not "loop".
ShortestResult(st) ==
    IF st.pc = "raised" THEN [raised |-> TRUE, value |-> <<"TypeError">>]
    ELSE IF st.pc = "done"
    THEN [raised |-> FALSE,
          value |-> <<st.popped[Len(st.popped)].path,
                      st.popped[Len(st.popped)].total_cost>>]
    ELSE [raised |-> FALSE, value |-> None]

\* A call of find_shortest_paths(start_node, target_node, max_depth), up to
\* the loop.
shortest_call ==
    /\ pc = "idle"
    /\ \E s \in DOMAIN nodes, t \in DOMAIN nodes, d \in -1..MaxDepth :
          /\ start_node' = s
          /\ max_depth' = d
          /\ algorithm' = "find_shortest_paths"
          /\ last_call' = [op |-> "find_shortest_paths", target_node |-> t]
          /\ \E st \in {SearchStart("dijkstra", s)} : SetSearchState(st)
    /\ UNCHANGED <<last_result, volatility_factor, weight, queueVars,
                   graphVars, tlVars, walletVars>>

\* One pass of "while frontier:".
shortest_loop ==
    /\ pc = "loop"
    /\ frontier # <<>>
    /\ \E st \in {ShortestAfterPop(nodes, last_call.target_node, max_depth,
                                   SearchState,
                                   Pop("dijkstra", SearchState.q))} :
          /\ SetSearchState(st)
          /\ last_result' =
                IF st.pc = "loop" THEN last_result ELSE ShortestResult(st)
    /\ UNCHANGED <<last_call, start_node, max_depth, algorithm,
                   volatility_factor, weight, queueVars, graphVars, tlVars,
                   walletVars>>

\* The frontier is empty: return None.
shortest_return ==
    /\ pc = "loop"
    /\ frontier = <<>>
    /\ pc' = "done"
    /\ last_result' = [raised |-> FALSE, value |-> None]
    /\ UNCHANGED <<last_call, start_node, max_depth, algorithm,
                   volatility_factor, weight, frontier, index_to_node,
                   visited, opportunities, popped, queueVars, graphVars,
                   tlVars, walletVars>>

ShortestNext == shortest_call \/ shortest_loop \/ shortest_return

ShortestSpec == Init /\ [][ShortestNext]_vars

\* The total costs of the walks from u to target with between 1 and k edges.
RECURSIVE WalkCostsTo(_, _, _)
WalkCostsTo(u, target, k) ==
    IF k <= 0 THEN {}
    ELSE UNION {(IF nodes[u].edges[i].target = target
                 THEN {nodes[u].edges[i].weight} ELSE {})
                \cup {nodes[u].edges[i].weight + c :
                         c \in WalkCostsTo(nodes[u].edges[i].target, target,
                                           k - 1)} :
                   i \in 1..Len(nodes[u].edges)}

\* The sums of weights over the ways to walk path from its i-th node on.
RECURSIVE PathCosts(_, _)
PathCosts(path, i) ==
    IF i >= Len(path) THEN {0}
    ELSE {nodes[path[i]].edges[j].weight + c :
             j \in {m \in 1..Len(nodes[path[i]].edges) :
                       nodes[path[i]].edges[m].target = path[i + 1]},
             c \in PathCosts(path, i + 1)}

\* The value returned is a least-cost walk from start_node to the target.
LeastCostWalk(value) ==
    /\ value[1][1] = start_node
    /\ value[1][Len(value[1])] = last_call.target_node
    /\ Len(value[1]) - 1 \in 1..max_depth
    /\ value[2] \in PathCosts(value[1], 1)
    /\ \A c \in WalkCostsTo(start_node, last_call.target_node, max_depth) :
          value[2] <= c

\* C29: on a graph with weights >= 0 a call of find_shortest_paths that is
\* over has returned: None exactly when no walk of 1 to max_depth edges
\* leads from the start to the target, and otherwise a walk of at most
\* max_depth edges from the start to the target whose cost is the sum of its
\* edge weights and is least among all such walks, found at the first pop of
\* the target with a path of more than one node; start = target needs a
\* walk of at least one edge.
C29_ShortestPath ==
    (NonNegativeGraph /\ pc \in {"done", "raised"})
       => /\ pc = "done"
          /\ ~last_result.raised
          /\ (last_result.value = None)
                <=> (WalkCostsTo(start_node, last_call.target_node,
                                 max_depth) = {})
          /\ last_result.value # None => LeastCostWalk(last_result.value)
          /\ \A i \in 1..(Len(popped) - 1) :
                ~(popped[i].node = last_call.target_node
                  /\ Len(popped[i].path) > 1)

\* What remains of C29 when no comparison raises.
ShortestWhenReturned ==
    (NonNegativeGraph /\ pc = "done")
       => /\ (last_result.value = None)
                <=> (WalkCostsTo(start_node, last_call.target_node,
                                 max_depth) = {})
          /\ last_result.value # None => LeastCostWalk(last_result.value)

----------------------------------------------------------------------------
(* The two A-star searches                                                 *)

\* astar_arbitrage run on the arguments of the search that is running.
AstarRun ==
    RunSearch(nodes, start_node, max_depth, "astar", volatility_factor,
              weight, SearchStart("astar", start_node))

\* C30: when astar_arbitrage_optimized has returned, astar_arbitrage called
\* with the same graph, start node, max_depth and volatility_factor returns
\* too, and returns the same list: same paths, profits and costs in the same
\* order, also where frontier states have equal f-cost.
C30_OptimizedSameAsAstar ==
    (algorithm = "astar_optimized" /\ pc = "done")
       => (AstarRun.pc = "done" /\ AstarRun.opportunities = opportunities)

\* What remains of C30 when astar_arbitrage raises no TypeError.
SameWhenAstarReturns ==
    (algorithm = "astar_optimized" /\ pc = "done" /\ AstarRun.pc = "done")
       => AstarRun.opportunities = opportunities

====
